---------------------------- MODULE Spec2Model ----------------------------
(***************************************************************************)
(* Job Market Momentum Index (src/etl/compute_jmmi.py).                    *)
(*                                                                         *)
(* Numbers.  The code computes in binary floating point and reports        *)
(* values rounded to one decimal.  Here a reported value is an integer     *)
(* number of tenths (50.0 is 500), an unrounded value is an exact fraction *)
(* num/den, and the weighted sum is an exact number of thousandths         *)
(* together with the sign of its floating-point representation error.      *)
(* round(x, 1) of a value that lies exactly between two tenths yields      *)
(* either neighbour (the float that the code rounds is a little above or   *)
(* a little below the tie: (57 - 80) / 80 * 100 + 50 is computed as        *)
(* 21.250000000000004).                                                    *)
(***************************************************************************)
EXTENDS Integers, Sequences, FiniteSets, TLC

VARIABLES
    pc,                 \* position in compute_jmmi
    now,                \* datetime.now(), in days
    files,              \* the input files that exist under data/curated
    trends,             \* aggregates_overall.parquet, rows in file order
    skills,             \* skill_frequency.json
    forecasts,          \* forecasts.parquet, rows in file order
    alerts,             \* alerts.json
    companies,          \* company_stats.parquet, rows in file order
    posting_velocity,   \* the five component results
    skill_velocity,
    forecast_accuracy,
    market_activity,
    company_diversity,
    jmmi_score,         \* the unrounded weighted sum
    result,             \* what compute_jmmi returns
    category_counts,    \* aggregates_category.parquet, rows in file order
    spike_alerts,       \* what detect_spikes, detect_drops and
    drop_alerts,        \*   detect_skill_trends return in generate_alerts
    skill_alerts,
    jobs,               \* jobs_clean.parquet, rows in file order
    daily_category_counts,  \* the frames and the table built by
    daily_location_counts,  \*   aggregate_counts
    daily_overall_counts,
    skill_frequency,
    company_stats,
    stage_result,       \* what the stage function called last has returned
    execution_status,   \* run_pipeline: its record of the run,
    pipeline_status,    \*   pipeline_status.json,
    exit_status,        \*   the exit status of the process
    previous_run        \* the outputs of the run before the current one

vars == <<pc, now, files, trends, skills, forecasts, alerts, companies,
          posting_velocity, skill_velocity, forecast_accuracy,
          market_activity, company_diversity, jmmi_score, result,
          category_counts, spike_alerts, drop_alerts, skill_alerts, jobs,
          daily_category_counts, daily_location_counts, daily_overall_counts,
          skill_frequency, company_stats, stage_result, execution_status,
          pipeline_status, exit_status, previous_run>>

\* The variables of generate_alerts and of aggregate_counts
alertVars == <<category_counts, spike_alerts, drop_alerts, skill_alerts>>
aggregateVars == <<jobs, daily_category_counts, daily_location_counts,
                   daily_overall_counts, skill_frequency>>

\* The variables of run_pipeline and of the results of its stages
pipelineVars == <<company_stats, stage_result, execution_status,
                  pipeline_status, exit_status, previous_run>>

\* The variables of compute_jmmi other than pc and its input tables
jmmiVars == <<now, files, trends, forecasts, alerts, companies,
              posting_velocity, skill_velocity, forecast_accuracy,
              market_activity, company_diversity, jmmi_score, result>>

-----------------------------------------------------------------------------
(* Bounds of the explored inputs *)

MaxRows == 15          \* rows of the overall trend table
MaxCount == 4          \* base daily job count of a window
MaxExtra == 6          \* extra jobs on the last day of a window
Clock == 9             \* the day the index is computed

MaxTrending == 11      \* skills growing by more than 50% in the skill table
MaxOther == 2          \* further skills of the skill table
MaxDates == 15         \* dates of the skill table
MaxForecastRows == 2   \* rows of the forecast table
MaxSpikes == 8         \* recent spike alerts
MaxDrops == 11         \* recent drop alerts
MaxCompanies == 51     \* rows of the company table

(* Program constants *)

NoTime == -1           \* the '' that a.get('generated_at', '') falls back to
NotExited == -1        \* the exit status of a process that is still running

-----------------------------------------------------------------------------
(* Arithmetic helpers *)

Min(a, b) == IF a < b THEN a ELSE b
Max(a, b) == IF a > b THEN a ELSE b
Abs(a) == IF a < 0 THEN 0 - a ELSE a

\* The absent value of a result that has not been computed.
None == [status |-> "none"]

\* No stage of run_pipeline has run and the process has not exited
NoPipeline ==
    /\ company_stats = <<>>
    /\ stage_result = None
    /\ execution_status = None
    /\ pipeline_status = None
    /\ exit_status = NotExited
    /\ previous_run = None

\* round(num/den, 1) in tenths, den > 0: the nearest tenth, and either
\* neighbour when num/den lies exactly between two tenths.
Round1(num, den) ==
    LET q == (10 * num) \div den
        r == (10 * num) % den
    IN  IF 2 * r < den THEN {q}
        ELSE IF 2 * r > den THEN {q + 1}
        ELSE {q, q + 1}

\* round(num/den, 1) in tenths where no float error is involved: ties go to
\* the even tenth.
RoundHalfEven1(num, den) ==
    LET q == (10 * num) \div den
        r == (10 * num) % den
    IN  IF 2 * r < den THEN q
        ELSE IF 2 * r > den THEN q + 1
        ELSE IF q % 2 = 0 THEN q ELSE q + 1

-----------------------------------------------------------------------------
(* DataFrame helpers *)

\* df.tail(n) and df.head(n)
Tail_(s, n) == SubSeq(s, Max(1, Len(s) - n + 1), Len(s))
Head_(s, n) == SubSeq(s, 1, Min(n, Len(s)))

\* df['job_count'].sum()
RECURSIVE SumJobCount(_)
SumJobCount(s) ==
    IF s = <<>> THEN 0 ELSE s[1].job_count + SumJobCount(Tail(s))

\* Insert row into a sequence sorted by posted_date, after its equals.
RECURSIVE InsertByDate(_, _)
InsertByDate(row, s) ==
    IF s = <<>> THEN <<row>>
    ELSE IF row.posted_date < s[1].posted_date THEN <<row>> \o s
    ELSE <<s[1]>> \o InsertByDate(row, Tail(s))

\* df.sort_values('posted_date')
RECURSIVE SortValuesByDate(_)
SortValuesByDate(s) ==
    IF s = <<>> THEN <<>>
    ELSE InsertByDate(s[Len(s)], SortValuesByDate(SubSeq(s, 1, Len(s) - 1)))

-----------------------------------------------------------------------------
(* Inputs: the overall trend table *)

\* n daily rows on days 1..n; the last 7 rows count b a day and b+eb on the
\* last, the 7 before them a a day and a+ea on their last, earlier rows x.
TrendTable(n, x, a, ea, b, eb) ==
    [i \in 1..n |->
        [posted_date |-> i,
         job_count |->
            IF i > n - 7
            THEN (IF i = n THEN b + eb ELSE b)
            ELSE IF i > n - 14
            THEN (IF i = n - 7 THEN a + ea ELSE a)
            ELSE x]]

\* recent_7d_sum = 140 and previous_7d_sum = 100
ScenarioTrends == TrendTable(14, 9, 14, 2, 20, 0)

TrendInputs ==
    { TrendTable(n, 9, a, ea, b, eb) :
        n \in {0, 13, 14, MaxRows}, a \in 0..MaxCount, ea \in {0, 2, MaxExtra},
        b \in 0..MaxCount, eb \in {0, 2, MaxExtra} }
    \cup {ScenarioTrends}

-----------------------------------------------------------------------------
(* compute_posting_velocity *)

\* Mutant: the previous window is the first 7 rows of the table.
compute_posting_velocity_head(t) ==
    IF Len(t) < 14
    THEN { [score |-> 500, change_pct |-> 0, status |-> "insufficient_data"] }
    ELSE
        LET sorted == SortValuesByDate(t)
            recent_7d == SumJobCount(Tail_(sorted, 7))
            previous_7d == SumJobCount(Head_(sorted, 7))
            cnum == IF previous_7d = 0 THEN 0 ELSE 100 * (recent_7d - previous_7d)
            cden == IF previous_7d = 0 THEN 1 ELSE previous_7d
            snum == Min(100 * cden, Max(0, 50 * cden + cnum))
            status == IF cnum > 10 * cden THEN "growing"
                      ELSE IF cnum < (0 - 10) * cden THEN "declining"
                      ELSE "stable"
        IN  { [score |-> s, change_pct |-> c, recent_count |-> recent_7d,
               previous_count |-> previous_7d, status |-> status] :
                s \in Round1(snum, cden), c \in Round1(cnum, cden) }

compute_posting_velocity(t) ==
    IF Len(t) < 14
    THEN { [score |-> 500, change_pct |-> 0, status |-> "insufficient_data"] }
    ELSE
        LET sorted == SortValuesByDate(t)
            recent_7d == SumJobCount(Tail_(sorted, 7))
            previous_7d == SumJobCount(Head_(Tail_(sorted, 14), 7))
            \* change_pct = cnum / cden
            cnum == IF previous_7d = 0 THEN 0 ELSE 100 * (recent_7d - previous_7d)
            cden == IF previous_7d = 0 THEN 1 ELSE previous_7d
            \* score = min(100, max(0, 50 + change_pct)) = snum / cden
            snum == Min(100 * cden, Max(0, 50 * cden + cnum))
            status == IF cnum > 10 * cden THEN "growing"
                      ELSE IF cnum < (0 - 10) * cden THEN "declining"
                      ELSE "stable"
        IN  { [score |-> s, change_pct |-> c, recent_count |-> recent_7d,
               previous_count |-> previous_7d, status |-> status] :
                s \in Round1(snum, cden), c \in Round1(cnum, cden) }

-----------------------------------------------------------------------------
(* Inputs: the skill frequency table (its by_date part) *)

SkillNames ==
    <<"python", "sql", "aws", "spark", "docker", "kubernetes", "pytorch",
      "tensorflow", "airflow", "dbt", "scala", "rust", "golang", "kafka",
      "snowflake", "tableau", "excel", "java">>

\* What one day's entry of skill number s holds, by the profile of the skill.
\* A trending skill doubles at least (1 a day in the previous window, 2 to 4
\* a day in the recent one); "borderline" grows by exactly 50%; "new" has no
\* previous count; "flat" does not grow; "gone" has no recent count.
PrevPerDay(s, profile) ==
    CASE profile = "trending" -> 1
      [] profile = "borderline" -> 2
      [] profile = "new" -> 0
      [] profile = "flat" -> 1
      [] OTHER -> 2

RecentPerDay(s, profile) ==
    CASE profile = "trending" -> 2 + (s % 3)
      [] profile = "borderline" -> 3
      [] profile = "new" -> 3
      [] profile = "flat" -> 1
      [] OTHER -> 0

\* Counter.most_common: by count descending, equal counts in first-seen order.
RECURSIVE InsertByCountDesc(_, _)
InsertByCountDesc(e, s) ==
    IF s = <<>> THEN <<e>>
    ELSE IF e.count > s[1].count THEN <<e>> \o s
    ELSE <<s[1]>> \o InsertByCountDesc(e, Tail(s))

RECURSIVE MostCommon(_)
MostCommon(s) ==
    IF s = <<>> THEN <<>>
    ELSE InsertByCountDesc(s[Len(s)], MostCommon(SubSeq(s, 1, Len(s) - 1)))

\* A by_date table of n dates 1..n (a JSON object: an ordered mapping from a
\* date to an ordered mapping from a skill to its count, here the sequence of
\* its items).  Skills 1..nt are trending and nt+1..nt+no have the given
\* profile; skill s is seen on two days of each 7-date window, skill 1 is
\* also seen on every date before the last 14, and "communication" is seen
\* once on every date.
SkillTable(n, nt, no, profile) ==
    LET prof(s) == IF s <= nt THEN "trending" ELSE profile
        on(s, k) == (k = s % 7) \/ (k = (s + 1) % 7)
        cnt(s, d) ==
            IF d > n - 7
            THEN (IF on(s, d - (n - 6)) THEN RecentPerDay(s, prof(s)) ELSE 0)
            ELSE IF d > n - 14
            THEN (IF on(s, d - (n - 13)) THEN PrevPerDay(s, prof(s)) ELSE 0)
            ELSE (IF s = 1 THEN 9 ELSE 0)
        all(d) == [s \in 1..(nt + no) |->
                    [skill |-> SkillNames[s], count |-> cnt(s, d)]]
                  \o <<[skill |-> "communication", count |-> 1]>>
    IN  [by_date |->
            [d \in 1..n |->
                MostCommon(SelectSeq(all(d), LAMBDA e : e.count > 0))]]

SkillInputs ==
    { SkillTable(n, nt, no, profile) :
        n \in {0, 13, 14, MaxDates}, nt \in 0..MaxTrending, no \in 0..MaxOther,
        profile \in {"borderline", "new", "flat", "gone"} }

-----------------------------------------------------------------------------
(* compute_skill_velocity *)

\* sorted(by_date.keys())
RECURSIVE Sorted(_)
Sorted(S) ==
    IF S = {} THEN <<>>
    ELSE LET m == CHOOSE x \in S : \A y \in S : x <= y
         IN  <<m>> \o Sorted(S \ {m})

\* d[skill] = d.get(skill, 0) + count, on an ordered dict kept as its items
RECURSIVE AddCount(_, _, _)
AddCount(d, skill, count) ==
    IF d = <<>> THEN <<[skill |-> skill, count |-> count]>>
    ELSE IF d[1].skill = skill
    THEN <<[skill |-> skill, count |-> d[1].count + count]>> \o Tail(d)
    ELSE <<d[1]>> \o AddCount(Tail(d), skill, count)

\* for skill, count in items: d[skill] = d.get(skill, 0) + count
RECURSIVE AddItems(_, _)
AddItems(d, items) ==
    IF items = <<>> THEN d
    ELSE AddItems(AddCount(d, items[1].skill, items[1].count), Tail(items))

\* for date in dates: for skill, count in by_date[date].items(): ...
RECURSIVE AggregateSkills(_, _, _)
AggregateSkills(d, by_date, dates) ==
    IF dates = <<>> THEN d
    ELSE AggregateSkills(AddItems(d, by_date[dates[1]]), by_date, Tail(dates))

\* d.get(skill, 0)
RECURSIVE GetCount(_, _)
GetCount(d, skill) ==
    IF d = <<>> THEN 0
    ELSE IF d[1].skill = skill THEN d[1].count
    ELSE GetCount(Tail(d), skill)

\* Mutant: a growth of exactly 50% counts as trending.
RECURSIVE FindTrending_at_least(_, _)
FindTrending_at_least(recent_skills, previous_skills) ==
    IF recent_skills = <<>> THEN <<>>
    ELSE
        LET recent_count == recent_skills[1].count
            previous_count == GetCount(previous_skills, recent_skills[1].skill)
            rest == FindTrending_at_least(Tail(recent_skills), previous_skills)
        IN  IF /\ previous_count > 0
               /\ 100 * (recent_count - previous_count) >= 50 * previous_count
            THEN <<[skill |-> recent_skills[1].skill,
                    growth_pct |-> RoundHalfEven1(
                        100 * (recent_count - previous_count), previous_count),
                    recent_count |-> recent_count,
                    previous_count |-> previous_count]>> \o rest
            ELSE rest

\* The loop over recent_skills that collects the skills with > 50% growth.
\* growth_pct is rounded half-even: with the counts explored here the
\* quotient never lies on a rounding tie.
RECURSIVE FindTrending(_, _)
FindTrending(recent_skills, previous_skills) ==
    IF recent_skills = <<>> THEN <<>>
    ELSE
        LET recent_count == recent_skills[1].count
            previous_count == GetCount(previous_skills, recent_skills[1].skill)
            rest == FindTrending(Tail(recent_skills), previous_skills)
        IN  IF /\ previous_count > 0
               /\ 100 * (recent_count - previous_count) > 50 * previous_count
            THEN <<[skill |-> recent_skills[1].skill,
                    growth_pct |-> RoundHalfEven1(
                        100 * (recent_count - previous_count), previous_count),
                    recent_count |-> recent_count,
                    previous_count |-> previous_count]>> \o rest
            ELSE rest

\* sorted(trending, key=growth_pct, reverse=True): stable
RECURSIVE InsertByGrowthDesc(_, _)
InsertByGrowthDesc(e, s) ==
    IF s = <<>> THEN <<e>>
    ELSE IF e.growth_pct > s[1].growth_pct THEN <<e>> \o s
    ELSE <<s[1]>> \o InsertByGrowthDesc(e, Tail(s))

\* Mutant: the list is left in the order in which the skills were found.
SortByGrowthDesc_unsorted(s) == s

RECURSIVE SortByGrowthDesc(_)
SortByGrowthDesc(s) ==
    IF s = <<>> THEN <<>>
    ELSE InsertByGrowthDesc(s[Len(s)], SortByGrowthDesc(SubSeq(s, 1, Len(s) - 1)))

\* Lines 172-205: the list trending of compute_skill_velocity, for a table
\* of at least 14 dates
TrendingList(sk) ==
    LET by_date == sk.by_date
        sorted_dates == Sorted(DOMAIN by_date)
        recent_dates == Tail_(sorted_dates, 7)
        previous_dates == Head_(Tail_(sorted_dates, 14), 7)
        recent_skills == AggregateSkills(<<>>, by_date, recent_dates)
        previous_skills == AggregateSkills(<<>>, by_date, previous_dates)
    IN  Head_(SortByGrowthDesc(FindTrending(recent_skills, previous_skills)),
              10)

compute_skill_velocity(sk) ==
    LET by_date == sk.by_date
    IN  IF Cardinality(DOMAIN by_date) < 14
        THEN [score |-> 500, trending_skills |-> <<>>,
              status |-> "insufficient_data"]
        ELSE
            LET sorted_dates == Sorted(DOMAIN by_date)
                recent_dates == Tail_(sorted_dates, 7)
                previous_dates == Head_(Tail_(sorted_dates, 14), 7)
                recent_skills == AggregateSkills(<<>>, by_date, recent_dates)
                previous_skills == AggregateSkills(<<>>, by_date, previous_dates)
                trending == TrendingList(sk)
                score == Min(100, 30 + Len(trending) * 7)
                status == IF Len(trending) >= 5 THEN "high_momentum"
                          ELSE IF Len(trending) >= 2 THEN "moderate"
                          ELSE "low"
            IN  [score |-> 10 * score,
                 trending_skills_count |-> Len(trending),
                 trending_skills |-> Head_(trending, 5),
                 status |-> status]

-----------------------------------------------------------------------------
(* Inputs: the forecast table, and trend tables for the forecast scorer *)

ForecastRows ==
    [date : {0, 7, 8, 20}, forecast : {0, 3, 4, 7, 10, 12, 17, 20, 23, 30}]

RECURSIVE SeqsUpTo(_, _)
SeqsUpTo(S, n) ==
    IF n = 0 THEN {<<>>}
    ELSE LET shorter == SeqsUpTo(S, n - 1)
         IN  shorter \cup { Append(q, x) : q \in shorter, x \in S }

ForecastInputs == SeqsUpTo(ForecastRows, MaxForecastRows)

\* Tables of 0, 6, 7 or 8 days with 0, 3 or 4 postings a day and a latest
\* count of 0, 3, 4, 6, 9, 10, 16, 19 or 20.
ForecastTrendInputs ==
    { TrendTable(n, 9, 1, 0, b, eb) :
        n \in {0, 6, 7, 8}, b \in {0, 3, 4}, eb \in {0, 6, 16} }

-----------------------------------------------------------------------------
(* compute_forecast_accuracy *)

\* forecasts['date'].max()
MaxDate(f) ==
    CHOOSE d \in { f[i].date : i \in DOMAIN f } :
        \A i \in DOMAIN f : f[i].date <= d

\* Mutant: the actual is the first selected row (.iloc[0]), not the last.
compute_forecast_accuracy_first(t, f) ==
    IF f = <<>> \/ Len(t) < 7
    THEN { [score |-> 500, mape |-> "None", status |-> "insufficient_data"] }
    ELSE
        LET latest_forecast_date == MaxDate(f)
            upto == SelectSeq(t, LAMBDA row : row.posted_date <= latest_forecast_date)
        IN  IF Len(t) > 0 /\ upto = <<>>
            THEN { [score |-> 500, mape |-> "None", status |-> "error"] }
            ELSE
            LET latest_actual == IF Len(t) > 0 THEN upto[1].job_count ELSE 0
                forecast_row == SelectSeq(f, LAMBDA row : row.date = latest_forecast_date)
            IN  IF latest_actual = 0
                THEN { [score |-> 500, mape |-> "None", status |-> "no_actual_data"] }
                ELSE IF forecast_row = <<>>
                THEN { [score |-> 500, mape |-> "None", status |-> "no_forecast_match"] }
                ELSE
                LET forecast_value == forecast_row[1].forecast
                    mnum == 100 * Abs(latest_actual - forecast_value)
                    snum == Max(0, 200 * latest_actual - 5 * mnum)
                    status == IF mnum < 15 * latest_actual THEN "predictable"
                              ELSE IF mnum < 30 * latest_actual THEN "moderate"
                              ELSE "volatile"
                IN  { [score |-> s, mape |-> m, forecast |-> forecast_value,
                       actual |-> latest_actual, status |-> status] :
                        s \in Round1(snum, 2 * latest_actual),
                        m \in Round1(mnum, latest_actual) }

compute_forecast_accuracy(t, f) ==
    IF f = <<>> \/ Len(t) < 7
    THEN { [score |-> 500, mape |-> "None", status |-> "insufficient_data"] }
    ELSE
        LET latest_forecast_date == MaxDate(f)
            upto == SelectSeq(t, LAMBDA row : row.posted_date <= latest_forecast_date)
        IN  IF Len(t) > 0 /\ upto = <<>>
            \* .iloc[-1] of an empty selection raises IndexError
            THEN { [score |-> 500, mape |-> "None", status |-> "error"] }
            ELSE
            LET latest_actual == IF Len(t) > 0 THEN upto[Len(upto)].job_count ELSE 0
                forecast_row == SelectSeq(f, LAMBDA row : row.date = latest_forecast_date)
            IN  IF latest_actual = 0
                THEN { [score |-> 500, mape |-> "None", status |-> "no_actual_data"] }
                ELSE IF forecast_row = <<>>
                THEN { [score |-> 500, mape |-> "None", status |-> "no_forecast_match"] }
                ELSE
                LET forecast_value == forecast_row[1].forecast
                    \* mape = mnum / latest_actual
                    mnum == 100 * Abs(latest_actual - forecast_value)
                    \* score = max(0, 100 - 2.5 * mape) = snum / (2 * latest_actual)
                    snum == Max(0, 200 * latest_actual - 5 * mnum)
                    status == IF mnum < 15 * latest_actual THEN "predictable"
                              ELSE IF mnum < 30 * latest_actual THEN "moderate"
                              ELSE "volatile"
                IN  { [score |-> s, mape |-> m, forecast |-> forecast_value,
                       actual |-> latest_actual, status |-> status] :
                        s \in Round1(snum, 2 * latest_actual),
                        m \in Round1(mnum, latest_actual) }

-----------------------------------------------------------------------------
(* Inputs: the alert list *)

\* k alerts of one type: without a generated_at when at = NoTime
AlertsOf(k, type, at) ==
    [i \in 1..k |->
        IF at = NoTime THEN [type |-> type]
        ELSE [type |-> type, generated_at |-> at]]

\* sr spikes and dr drops of the last 7 days (the first of each generated
\* exactly at the cutoff), so spikes and do drops older than that, st skill
\* trends, nm spikes without a generated_at.
AlertList(t, sr, dr, so, do, st, nm) ==
    AlertsOf(Min(sr, 1), "spike", t - 7) \o AlertsOf(sr - Min(sr, 1), "spike", t)
    \o AlertsOf(so, "spike", t - 8)
    \o AlertsOf(Min(dr, 1), "drop", t - 7) \o AlertsOf(dr - Min(dr, 1), "drop", t)
    \o AlertsOf(do, "drop", t - 8)
    \o AlertsOf(st, "skill_trend", t)
    \o AlertsOf(nm, "spike", NoTime)

AlertInputs ==
    { AlertList(Clock, sr, dr, so, do, st, nm) :
        sr \in 0..MaxSpikes, dr \in 0..MaxDrops, so \in 0..1, do \in 0..1,
        st \in 0..1, nm \in 0..1 }

-----------------------------------------------------------------------------
(* compute_market_activity *)

\* a.get('generated_at', '')
GetGeneratedAt(a) ==
    IF "generated_at" \in DOMAIN a THEN a.generated_at ELSE NoTime

\* Mutant: the drop penalty is subtracted before the cap at 100.
compute_market_activity_clamped_sum(al, t) ==
    LET recent_cutoff == t - 7
        recent_alerts == SelectSeq(al, LAMBDA a : GetGeneratedAt(a) >= recent_cutoff)
        spikes == SelectSeq(recent_alerts, LAMBDA a : a.type = "spike")
        drops == SelectSeq(recent_alerts, LAMBDA a : a.type = "drop")
        skill_trends == SelectSeq(recent_alerts, LAMBDA a : a.type = "skill_trend")
        final_score == Min(100, Max(0, 30 + Len(spikes) * 14 - Len(drops) * 10))
        status == IF Len(spikes) >= 3 THEN "active"
                  ELSE IF Len(spikes) >= 1 THEN "moderate"
                  ELSE "quiet"
    IN  [score |-> 10 * final_score,
         total_alerts |-> Len(recent_alerts),
         spikes |-> Len(spikes),
         drops |-> Len(drops),
         skill_trends |-> Len(skill_trends),
         status |-> status]

compute_market_activity(al, t) ==
    LET recent_cutoff == t - 7
        recent_alerts == SelectSeq(al, LAMBDA a : GetGeneratedAt(a) >= recent_cutoff)
        spikes == SelectSeq(recent_alerts, LAMBDA a : a.type = "spike")
        drops == SelectSeq(recent_alerts, LAMBDA a : a.type = "drop")
        skill_trends == SelectSeq(recent_alerts, LAMBDA a : a.type = "skill_trend")
        spike_score == Min(100, 30 + Len(spikes) * 14)
        drop_penalty == Len(drops) * 10
        final_score == Max(0, spike_score - drop_penalty)
        status == IF Len(spikes) >= 3 THEN "active"
                  ELSE IF Len(spikes) >= 1 THEN "moderate"
                  ELSE "quiet"
    IN  [score |-> 10 * final_score,
         total_alerts |-> Len(recent_alerts),
         spikes |-> Len(spikes),
         drops |-> Len(drops),
         skill_trends |-> Len(skill_trends),
         status |-> status]

-----------------------------------------------------------------------------
(* Inputs: the company table *)

\* n companies, sorted by job count descending as compute_company_stats
\* leaves them
CompanyTable(n) ==
    [i \in 1..n |-> [company_name |-> i, job_count |-> (n - i) \div 2 + 1]]

CompanyInputs == { CompanyTable(n) : n \in 0..MaxCompanies }

-----------------------------------------------------------------------------
(* compute_company_diversity *)

RECURSIVE InsertByJobCountDesc(_, _)
InsertByJobCountDesc(e, s) ==
    IF s = <<>> THEN <<e>>
    ELSE IF e.job_count > s[1].job_count THEN <<e>> \o s
    ELSE <<s[1]>> \o InsertByJobCountDesc(e, Tail(s))

\* companies.nlargest(n, 'job_count'): equal counts in row order
RECURSIVE SortByJobCountDesc(_)
SortByJobCountDesc(s) ==
    IF s = <<>> THEN <<>>
    ELSE InsertByJobCountDesc(s[Len(s)],
                              SortByJobCountDesc(SubSeq(s, 1, Len(s) - 1)))

NLargest(n, s) == Head_(SortByJobCountDesc(s), n)

\* Mutant: an empty company table gets the neutral placeholder.
compute_company_diversity_placeholder(c) ==
    IF c = <<>>
    THEN { [score |-> 500, unique_companies |-> 0, status |-> "insufficient_data"] }
    ELSE
    LET unique_companies == Len(c)
        snum == Min(5000, unique_companies * 100)
        status == IF unique_companies >= 30 THEN "diverse"
                  ELSE IF unique_companies >= 15 THEN "moderate"
                  ELSE "concentrated"
    IN  { [score |-> s, unique_companies |-> unique_companies,
           top_companies |-> NLargest(5, c), status |-> status] :
            s \in Round1(snum, 50) }

\* Mutant: the score is not capped at 100.
compute_company_diversity_uncapped(c) ==
    LET unique_companies == Len(c)
        snum == unique_companies * 100
        status == IF unique_companies >= 30 THEN "diverse"
                  ELSE IF unique_companies >= 15 THEN "moderate"
                  ELSE "concentrated"
    IN  { [score |-> s, unique_companies |-> unique_companies,
           top_companies |-> NLargest(5, c), status |-> status] :
            s \in Round1(snum, 50) }

compute_company_diversity(c) ==
    LET unique_companies == Len(c)
        \* score = min(100, unique_companies / 50 * 100) = snum / 50
        snum == Min(5000, unique_companies * 100)
        status == IF unique_companies >= 30 THEN "diverse"
                  ELSE IF unique_companies >= 15 THEN "moderate"
                  ELSE "concentrated"
    IN  { [score |-> s, unique_companies |-> unique_companies,
           top_companies |-> NLargest(5, c), status |-> status] :
            s \in Round1(snum, 50) }

-----------------------------------------------------------------------------
(* compute_jmmi: the weighted sum, its band and its recommendation *)

AllFiles ==
    {"aggregates_overall.parquet", "skill_frequency.json", "forecasts.parquet",
     "alerts.json", "company_stats.parquet"}

\* The weights, in hundredths
Weights ==
    [posting_velocity |-> 30, skill_velocity |-> 25, forecast_accuracy |-> 20,
     market_activity |-> 15, company_diversity |-> 10]

\* The weighted sum of the five scores (tenths), in thousandths
WeightedSum(pv, sv, fa, ma, cd) ==
    pv.score * Weights.posting_velocity
    + sv.score * Weights.skill_velocity
    + fa.score * Weights.forecast_accuracy
    + ma.score * Weights.market_activity
    + cd.score * Weights.company_diversity

\* The float that holds the weighted sum differs from the exact sum by a
\* representation error (30*77.1% + 25*51.0% + 20*48.6% + 15*32.0% + 10*96.0%
\* is computed as 59.99999999999999).  Its sign can decide an outcome only
\* when the exact sum is a multiple of 0.05: on a rounding tie or on a band
\* threshold.
FloatNoise(milli) == IF milli % 50 = 0 THEN {-1, 0, 1} ELSE {0}

\* score >= threshold, the threshold in whole points
AtLeast(score, threshold) ==
    \/ score.milli > 1000 * threshold
    \/ score.milli = 1000 * threshold /\ score.eps >= 0

\* Mutant: the score is truncated to one decimal instead of rounded.
RoundScore_truncating(score) == score.milli \div 100

\* round(score, 1), in tenths
RoundScore(score) ==
    LET q == score.milli \div 100
        r == score.milli % 100
    IN  IF r < 50 THEN q
        ELSE IF r > 50 THEN q + 1
        ELSE IF score.eps < 0 THEN q
        ELSE IF score.eps > 0 THEN q + 1
        ELSE IF q % 2 = 0 THEN q ELSE q + 1

interpret_jmmi(score) ==
    IF AtLeast(score, 80) THEN [label |-> "Hot Market"]
    ELSE IF AtLeast(score, 60) THEN [label |-> "Growing Market"]
    ELSE IF AtLeast(score, 40) THEN [label |-> "Stable Market"]
    ELSE IF AtLeast(score, 20) THEN [label |-> "Cooling Market"]
    ELSE [label |-> "Cold Market"]

\* f"{x:.0f}" of a value given in tenths
Format0(tenths) ==
    LET q == tenths \div 10
        r == tenths % 10
    IN  IF r < 5 THEN q
        ELSE IF r > 5 THEN q + 1
        ELSE IF q % 2 = 0 THEN q ELSE q + 1

\* The recommendation, or the exception that building it raises
generate_recommendation(score, pv, sv) ==
    IF AtLeast(score, 80)
    THEN
        LET has_list == "trending_skills" \in DOMAIN sv
        IN  IF has_list /\ sv.trending_skills = <<>>
            \* [][0]
            THEN [raised |-> "IndexError"]
            ELSE
                LET top_skill ==
                        IF has_list /\ "skill" \in DOMAIN sv.trending_skills[1]
                        THEN sv.trending_skills[1].skill
                        ELSE "high-demand skills"
                IN  [text |-> "Market is hot! Consider learning {top_skill} to capitalize on {change_pct}% growth in postings.",
                     top_skill |-> top_skill,
                     change_pct |-> Format0(pv.change_pct)]
    ELSE IF AtLeast(score, 60)
    THEN [text |-> "Market is growing steadily. Good time to explore new opportunities or negotiate raises."]
    ELSE IF AtLeast(score, 40)
    THEN [text |-> "Market is stable. Focus on differentiation through skills and networking."]
    ELSE IF AtLeast(score, 20)
    THEN [text |-> "Market is cooling. Prioritize upskilling in emerging technologies to stay competitive."]
    ELSE [text |-> "Market is cold. Focus on retention, networking, and building expertise in resilient skills."]

create_default_jmmi(t) ==
    LET neutral == [score |-> 500, status |-> "insufficient_data"]
    IN  [overall_score |-> 500,
         components |->
            [posting_velocity |-> neutral, skill_velocity |-> neutral,
             forecast_accuracy |-> neutral, market_activity |-> neutral,
             company_diversity |-> neutral],
         interpretation |-> interpret_jmmi([milli |-> 50000, eps |-> 0]),
         recommendation |->
            [text |-> "Insufficient data for accurate JMMI calculation. Run the ETL pipeline to collect more data."],
         calculated_at |-> t]

\* What compute_jmmi returns once the five components are computed
compose_jmmi(score, pv, sv, fa, ma, cd, t) ==
    LET recommendation == generate_recommendation(score, pv, sv)
    IN  IF "raised" \in DOMAIN recommendation
        THEN [success |-> FALSE, error |-> recommendation.raised]
        ELSE [success |-> TRUE,
              jmmi |->
                [overall_score |-> RoundScore(score),
                 components |->
                    [posting_velocity |-> pv, skill_velocity |-> sv,
                     forecast_accuracy |-> fa, market_activity |-> ma,
                     company_diversity |-> cd],
                 interpretation |-> interpret_jmmi(score),
                 recommendation |-> recommendation,
                 calculated_at |-> t,
                 methodology |-> [weights |-> Weights]],
              output_file |-> "data/curated/jmmi.json"]

-----------------------------------------------------------------------------
(* The files that compute_jmmi loads *)

LoadTrends ==
    {TrendTable(13, 9, 1, 0, 1, 0), ScenarioTrends}
    \cup { TrendTable(14, 9, a, ea, b, 0) :
            a \in {1, 2}, ea \in {0, 2}, b \in 0..MaxCount }

LoadSkills ==
    { SkillTable(13, 0, 1, "new"), SkillTable(14, 0, 1, "new"),
      SkillTable(14, 1, 1, "new"), SkillTable(14, 5, 1, "new"),
      SkillTable(MaxDates, MaxTrending, 1, "new") }

LoadForecasts ==
    {<<>>} \cup { <<[date |-> 20, forecast |-> f]>> : f \in {0, 3, 4, 7, 20} }

LoadAlerts ==
    { AlertList(Clock, 0, 0, 0, 0, 0, 0), AlertList(Clock, 0, 3, 0, 0, 0, 0),
      AlertList(Clock, 2, 0, 0, 0, 0, 0), AlertList(Clock, 5, 0, 0, 0, 0, 0),
      AlertList(Clock, MaxSpikes, 1, 0, 0, 0, 0) }

LoadCompanies ==
    { CompanyTable(0), CompanyTable(10), CompanyTable(25), CompanyTable(50),
      CompanyTable(MaxCompanies) }

-----------------------------------------------------------------------------
(* Actions *)

\* Mutant: a missing file is reported as a failure.
CheckFiles_failing ==
    /\ pc = "check_files"
    /\ IF AllFiles \ files # {}
       THEN /\ result' = [success |-> FALSE, error |-> "missing files"]
            /\ pc' = "done"
       ELSE /\ result' = result
            /\ pc' = "load"
    /\ UNCHANGED <<now, files, trends, skills, forecasts, alerts, companies,
                   posting_velocity, skill_velocity, forecast_accuracy,
                   market_activity, company_diversity, jmmi_score>>
    /\ UNCHANGED <<alertVars, aggregateVars, pipelineVars>>

\* Lines 39-52: any missing file short-circuits to the default index.
CheckFiles ==
    /\ pc = "check_files"
    /\ LET missing_files == AllFiles \ files
       IN  IF missing_files # {}
           THEN /\ result' = [success |-> TRUE,
                              jmmi |-> create_default_jmmi(now),
                              warning |-> "Insufficient data for full JMMI calculation"]
                /\ pc' = "done"
           ELSE /\ result' = result
                /\ pc' = "load"
    /\ UNCHANGED <<now, files, trends, skills, forecasts, alerts, companies,
                   posting_velocity, skill_velocity, forecast_accuracy,
                   market_activity, company_diversity, jmmi_score>>
    /\ UNCHANGED <<alertVars, aggregateVars, pipelineVars>>

\* Lines 54-61
LoadData ==
    /\ pc = "load"
    /\ trends' \in LoadTrends
    /\ skills' \in LoadSkills
    /\ forecasts' \in LoadForecasts
    /\ alerts' \in LoadAlerts
    /\ companies' \in LoadCompanies
    /\ pc' = "posting_velocity"
    /\ UNCHANGED <<now, files, posting_velocity, skill_velocity,
                   forecast_accuracy, market_activity, company_diversity,
                   jmmi_score, result>>
    /\ UNCHANGED <<alertVars, aggregateVars, pipelineVars>>

PostingVelocity ==
    /\ pc = "posting_velocity"
    /\ posting_velocity' \in compute_posting_velocity(trends)
    /\ pc' = "skill_velocity"
    /\ UNCHANGED <<now, files, trends, skills, forecasts, alerts, companies,
                   skill_velocity, forecast_accuracy, market_activity,
                   company_diversity, jmmi_score, result>>
    /\ UNCHANGED <<alertVars, aggregateVars, pipelineVars>>

SkillVelocity ==
    /\ pc = "skill_velocity"
    /\ skill_velocity' = compute_skill_velocity(skills)
    /\ pc' = "forecast_accuracy"
    /\ UNCHANGED <<now, files, trends, skills, forecasts, alerts, companies,
                   posting_velocity, forecast_accuracy, market_activity,
                   company_diversity, jmmi_score, result>>
    /\ UNCHANGED <<alertVars, aggregateVars, pipelineVars>>

ForecastAccuracy ==
    /\ pc = "forecast_accuracy"
    /\ forecast_accuracy' \in compute_forecast_accuracy(trends, forecasts)
    /\ pc' = "market_activity"
    /\ UNCHANGED <<now, files, trends, skills, forecasts, alerts, companies,
                   posting_velocity, skill_velocity, market_activity,
                   company_diversity, jmmi_score, result>>
    /\ UNCHANGED <<alertVars, aggregateVars, pipelineVars>>

MarketActivity ==
    /\ pc = "market_activity"
    /\ market_activity' = compute_market_activity(alerts, now)
    /\ pc' = "company_diversity"
    /\ UNCHANGED <<now, files, trends, skills, forecasts, alerts, companies,
                   posting_velocity, skill_velocity, forecast_accuracy,
                   company_diversity, jmmi_score, result>>
    /\ UNCHANGED <<alertVars, aggregateVars, pipelineVars>>

CompanyDiversity ==
    /\ pc = "company_diversity"
    /\ company_diversity' \in compute_company_diversity(companies)
    /\ pc' = "weighted_sum"
    /\ UNCHANGED <<now, files, trends, skills, forecasts, alerts, companies,
                   posting_velocity, skill_velocity, forecast_accuracy,
                   market_activity, jmmi_score, result>>
    /\ UNCHANGED <<alertVars, aggregateVars, pipelineVars>>

\* Lines 72-121
Compose ==
    /\ pc = "weighted_sum"
    /\ LET milli == WeightedSum(posting_velocity, skill_velocity,
                                forecast_accuracy, market_activity,
                                company_diversity)
       IN  \E eps \in FloatNoise(milli) :
            /\ jmmi_score' = [milli |-> milli, eps |-> eps]
            /\ result' = compose_jmmi(jmmi_score', posting_velocity,
                                      skill_velocity, forecast_accuracy,
                                      market_activity, company_diversity, now)
    /\ pc' = "done"
    /\ UNCHANGED <<now, files, trends, skills, forecasts, alerts, companies,
                   posting_velocity, skill_velocity, forecast_accuracy,
                   market_activity, company_diversity>>
    /\ UNCHANGED <<alertVars, aggregateVars, pipelineVars>>

Next ==
    \/ CheckFiles
    \/ LoadData
    \/ PostingVelocity
    \/ SkillVelocity
    \/ ForecastAccuracy
    \/ MarketActivity
    \/ CompanyDiversity
    \/ Compose

-----------------------------------------------------------------------------
(* Specifications *)

\* The state in which position p is entered with the given tables loaded
Entered(p, fs, t, s, f, a, c) ==
    /\ pc = p
    /\ now = Clock
    /\ files = fs
    /\ trends = t
    /\ skills = s
    /\ forecasts = f
    /\ alerts = a
    /\ companies = c
    /\ posting_velocity = None
    /\ skill_velocity = None
    /\ forecast_accuracy = None
    /\ market_activity = None
    /\ company_diversity = None
    /\ jmmi_score = None
    /\ result = None
    /\ category_counts = <<>>
    /\ spike_alerts = <<>>
    /\ drop_alerts = <<>>
    /\ skill_alerts = <<>>
    /\ jobs = <<>>
    /\ daily_category_counts = <<>>
    /\ daily_location_counts = <<>>
    /\ daily_overall_counts = <<>>
    /\ skill_frequency = None
    /\ NoPipeline

NoSkills == [by_date |-> <<>>]

\* compute_jmmi, from any set of existing input files
Init ==
    \E fs \in SUBSET AllFiles :
        Entered("check_files", fs, <<>>, NoSkills, <<>>, <<>>, <<>>)

Spec == Init /\ [][Next]_vars

\* compute_posting_velocity on every trend table of TrendInputs
InitPostingVelocity ==
    \E t \in TrendInputs :
        Entered("posting_velocity", AllFiles, t, NoSkills, <<>>, <<>>, <<>>)

SpecPostingVelocity == InitPostingVelocity /\ [][PostingVelocity]_vars

\* compute_skill_velocity on every skill table of SkillInputs
InitSkillVelocity ==
    \E s \in SkillInputs :
        Entered("skill_velocity", AllFiles, <<>>, s, <<>>, <<>>, <<>>)

SpecSkillVelocity == InitSkillVelocity /\ [][SkillVelocity]_vars

\* compute_forecast_accuracy on every pair of ForecastTrendInputs and
\* ForecastInputs
InitForecastAccuracy ==
    \E t \in ForecastTrendInputs, f \in ForecastInputs :
        Entered("forecast_accuracy", AllFiles, t, NoSkills, f, <<>>, <<>>)

SpecForecastAccuracy == InitForecastAccuracy /\ [][ForecastAccuracy]_vars

\* compute_market_activity on every alert list of AlertInputs
InitMarketActivity ==
    \E a \in AlertInputs :
        Entered("market_activity", AllFiles, <<>>, NoSkills, <<>>, a, <<>>)

SpecMarketActivity == InitMarketActivity /\ [][MarketActivity]_vars

\* compute_company_diversity on every company table of CompanyInputs
InitCompanyDiversity ==
    \E c \in CompanyInputs :
        Entered("company_diversity", AllFiles, <<>>, NoSkills, <<>>, <<>>, c)

SpecCompanyDiversity == InitCompanyDiversity /\ [][CompanyDiversity]_vars

-----------------------------------------------------------------------------
(* Claims about compute_jmmi *)

\* compute_jmmi has returned an index computed from the five loaded tables
FullIndex ==
    /\ pc = "done"
    /\ "jmmi" \in DOMAIN result
    /\ "methodology" \in DOMAIN result.jmmi

\* compute_jmmi has returned the default index
DefaultIndex ==
    /\ pc = "done"
    /\ "jmmi" \in DOMAIN result
    /\ "methodology" \notin DOMAIN result.jmmi

ComponentNames ==
    {"posting_velocity", "skill_velocity", "forecast_accuracy",
     "market_activity", "company_diversity"}

\* C1: whatever the input files hold or lack, the overall_score of a returned
\* index lies within [0, 100].
C1_OverallScoreInRange ==
    "jmmi" \in DOMAIN result =>
        /\ result.jmmi.overall_score >= 0
        /\ result.jmmi.overall_score <= 1000

\* An index computed from five present files reports the top score 100.0.
C1_Witness ==
    /\ FullIndex
    /\ result.jmmi.overall_score = 1000

\* C2: with all inputs present the reported overall_score is
\* 0.30*posting_velocity + 0.25*skill_velocity + 0.20*forecast_accuracy
\* + 0.15*market_activity + 0.10*company_diversity rounded to one decimal
\* (at most 0.05 away from the exact sum), every component score used lies
\* within [0, 100], and the weights sum to 1.0.
C2_WeightedSumRounded ==
    FullIndex =>
        LET c == result.jmmi.components
            w == result.jmmi.methodology.weights
            exact == 30 * c.posting_velocity.score + 25 * c.skill_velocity.score
                     + 20 * c.forecast_accuracy.score
                     + 15 * c.market_activity.score
                     + 10 * c.company_diversity.score
        IN  /\ files = AllFiles
            /\ \A n \in ComponentNames : c[n].score >= 0 /\ c[n].score <= 1000
            /\ w = [posting_velocity |-> 30, skill_velocity |-> 25,
                    forecast_accuracy |-> 20, market_activity |-> 15,
                    company_diversity |-> 10]
            /\ 100 * result.jmmi.overall_score - exact <= 50
            /\ exact - 100 * result.jmmi.overall_score <= 50

\* An index whose weighted sum had to be rounded up to the next tenth.
C2_Witness ==
    /\ FullIndex
    /\ 100 * result.jmmi.overall_score > jmmi_score.milli
    /\ jmmi_score.milli % 100 > 50

\* C3: when any of the five input files is absent, compute_jmmi returns
\* success with the default index (overall 50.0, five components 50.0 with
\* status insufficient_data, band Stable, the fixed advisory recommendation)
\* and a warning.
C3_MissingFilesGiveDefault ==
    (pc = "done" /\ files # AllFiles) =>
        /\ result.success
        /\ "warning" \in DOMAIN result
        /\ result.jmmi.overall_score = 500
        /\ \A n \in ComponentNames :
            /\ result.jmmi.components[n].score = 500
            /\ result.jmmi.components[n].status = "insufficient_data"
        /\ result.jmmi.interpretation.label = "Stable Market"
        /\ result.jmmi.recommendation.text =
            "Insufficient data for accurate JMMI calculation. Run the ETL pipeline to collect more data."

\* compute_jmmi has returned with only forecasts.parquet absent.
C3_Witness ==
    /\ pc = "done"
    /\ AllFiles \ files = {"forecasts.parquet"}
    /\ DefaultIndex

\* C4: when all five input files are present, compute_jmmi completes with
\* success and a full index, whatever the component results and the band.
C4_AlwaysCompletes ==
    (pc = "done" /\ files = AllFiles) => (result.success /\ FullIndex)

\* The band that the spec assigns to a reported score (tenths)
BandOfReported(overall_score) ==
    IF overall_score >= 800 THEN "Hot"
    ELSE IF overall_score >= 600 THEN "Growing"
    ELSE IF overall_score >= 400 THEN "Stable"
    ELSE IF overall_score >= 200 THEN "Cooling"
    ELSE "Cold"

BandOfLabel(label) ==
    CASE label = "Hot Market" -> "Hot"
      [] label = "Growing Market" -> "Growing"
      [] label = "Stable Market" -> "Stable"
      [] label = "Cooling Market" -> "Cooling"
      [] OTHER -> "Cold"

BandOfRecommendation(text) ==
    CASE text = "Market is hot! Consider learning {top_skill} to capitalize on {change_pct}% growth in postings." -> "Hot"
      [] text = "Market is growing steadily. Good time to explore new opportunities or negotiate raises." -> "Growing"
      [] text = "Market is stable. Focus on differentiation through skills and networking." -> "Stable"
      [] text = "Market is cooling. Prioritize upskilling in emerging technologies to stay competitive." -> "Cooling"
      [] OTHER -> "Cold"

\* C5: the interpretation band and the recommendation of every computed index
\* are those of its reported overall_score, with inclusive lower bounds 80,
\* 60, 40 and 20.
C5_BandMatchesReportedScore ==
    FullIndex =>
        /\ BandOfLabel(result.jmmi.interpretation.label)
            = BandOfReported(result.jmmi.overall_score)
        /\ BandOfRecommendation(result.jmmi.recommendation.text)
            = BandOfReported(result.jmmi.overall_score)

-----------------------------------------------------------------------------
(* Claims about the five components *)

RECURSIVE SumOver(_, _)
\* The sum of f[x] over the x in the finite set S
SumOver(f, S) ==
    IF S = {} THEN 0
    ELSE LET x == CHOOSE y \in S : TRUE
         IN  f[x] + SumOver(f, S \ {x})

Clamp(x, lo, hi) == IF x < lo THEN lo ELSE IF x > hi THEN hi ELSE x

Distance(a, b) == IF a < b THEN b - a ELSE a - b

\* The number of alerts of a type generated within the last 7 days
RecentAlerts(type) ==
    Cardinality({ i \in DOMAIN alerts :
                    /\ alerts[i].type = type
                    /\ "generated_at" \in DOMAIN alerts[i]
                    /\ alerts[i].generated_at >= now - 7 })

RowsRanked(lo, hi) ==
    { i \in DOMAIN trends :
        LET later == Cardinality({ j \in DOMAIN trends :
                        trends[j].posted_date > trends[i].posted_date })
        IN  lo <= later /\ later < hi }

JobCounts == [i \in DOMAIN trends |-> trends[i].job_count]
RecentSum == SumOver(JobCounts, RowsRanked(0, 7))
PreviousSum == SumOver(JobCounts, RowsRanked(7, 14))

\* clamp(50 + (recent - previous)/previous*100, 0, 100) in tenths, times
\* previous
ExactVelocityTimesPrevious ==
    Clamp(500 * PreviousSum + 1000 * (RecentSum - PreviousSum),
          0, 1000 * PreviousSum)

\* What C7 says of short tables, of previous = 0 and of the 140/100 scenario
C7_Cases ==
    /\ Len(trends) < 14 =>
        /\ posting_velocity.score = 500
        /\ posting_velocity.status = "insufficient_data"
    /\ (Len(trends) >= 14 /\ PreviousSum = 0) =>
        /\ posting_velocity.change_pct = 0
        /\ posting_velocity.score = 500
    /\ (Len(trends) >= 14 /\ RecentSum = 140 /\ PreviousSum = 100) =>
        /\ posting_velocity.change_pct = 400
        /\ posting_velocity.score = 900

\* C7 as claimed: with at least 14 rows the score equals
\* clamp(50 + change_pct, 0, 100), change_pct = (recent - previous)/previous
\* * 100 over the last 7 rows and the 7 before them; fewer rows give 50.0
\* insufficient_data, previous = 0 gives change_pct 0 and score 50.
C7_ScoreIsClamp ==
    posting_velocity # None =>
        /\ C7_Cases
        /\ (Len(trends) >= 14 /\ PreviousSum # 0) =>
            posting_velocity.score * PreviousSum = ExactVelocityTimesPrevious

\* C7 as amended: the score equals clamp(50 + change_pct, 0, 100) rounded to
\* one decimal (at most 0.05 away from it); the other cases as claimed.
C7_ScoreIsRoundedClamp ==
    posting_velocity # None =>
        /\ C7_Cases
        /\ (Len(trends) >= 14 /\ PreviousSum # 0) =>
            2 * Distance(posting_velocity.score * PreviousSum,
                         ExactVelocityTimesPrevious) <= PreviousSum

\* A table of 14 or more rows whose score had to be rounded.
C7_Witness ==
    /\ posting_velocity # None
    /\ Len(trends) >= 14
    /\ PreviousSum # 0
    /\ posting_velocity.score * PreviousSum # ExactVelocityTimesPrevious

\* The dates of by_date that have at least lo and fewer than hi later dates
DatesRanked(lo, hi) ==
    { d \in DOMAIN skills.by_date :
        LET later == Cardinality({ e \in DOMAIN skills.by_date : e > d })
        IN  lo <= later /\ later < hi }

\* The total count of a skill over a set of dates
SkillTotal(skill, dates) ==
    LET onDate == [d \in dates |->
                    LET items == skills.by_date[d]
                        counts == [i \in DOMAIN items |-> items[i].count]
                    IN  SumOver(counts, { i \in DOMAIN items : items[i].skill = skill })]
    IN  SumOver(onDate, dates)

SkillsSeen ==
    UNION { { skills.by_date[d][i].skill : i \in DOMAIN skills.by_date[d] } :
            d \in DOMAIN skills.by_date }

\* The skills whose total over the 7 most recent dates exceeds their nonzero
\* total over the 7 preceding dates by more than 50%
TrendingSkills ==
    { s \in SkillsSeen :
        LET recent == SkillTotal(s, DatesRanked(0, 7))
            previous == SkillTotal(s, DatesRanked(7, 14))
        IN  previous # 0 /\ 2 * recent > 3 * previous }

\* C8: with at least 14 dates in by_date the score of skill_velocity is
\* clamp(30 + 7*trending_count, 0, 100), trending_count the number of skills
\* that grew by more than 50% between the two 7-date windows; with fewer
\* dates it is 50.0 with status insufficient_data.
C8_SkillVelocityScore ==
    skill_velocity # None =>
        IF Cardinality(DOMAIN skills.by_date) >= 14
        THEN skill_velocity.score
                = 10 * Clamp(30 + 7 * Cardinality(TrendingSkills), 0, 100)
        ELSE /\ skill_velocity.score = 500
             /\ skill_velocity.status = "insufficient_data"

\* More than 10 skills are trending: the score is 100.0.
C8_Witness ==
    /\ skill_velocity # None
    /\ Cardinality(DOMAIN skills.by_date) >= 14
    /\ Cardinality(TrendingSkills) > 10
    /\ skill_velocity.score = 1000

LatestForecastDate ==
    CHOOSE d \in { forecasts[i].date : i \in DOMAIN forecasts } :
        \A i \in DOMAIN forecasts : forecasts[i].date <= d
RowsUpToForecast ==
    { i \in DOMAIN trends : trends[i].posted_date <= LatestForecastDate }
LatestActual ==
    LET i == CHOOSE k \in RowsUpToForecast :
                \A j \in RowsUpToForecast :
                    trends[j].posted_date <= trends[k].posted_date
    IN  trends[i].job_count
LatestForecast ==
    LET i == CHOOSE k \in DOMAIN forecasts :
                /\ forecasts[k].date = LatestForecastDate
                /\ \A j \in 1..(k - 1) : forecasts[j].date # LatestForecastDate
    IN  forecasts[i].forecast

\* A forecast exists and the latest actual on or before it is nonzero
ForecastScored ==
    /\ forecast_accuracy # None
    /\ forecasts # <<>>
    /\ RowsUpToForecast # {}
    /\ LatestActual # 0

AbsError == Distance(LatestActual, LatestForecast)

\* The status of the unrounded MAPE
C10_Status ==
    forecast_accuracy.status =
        IF 100 * AbsError < 15 * LatestActual THEN "predictable"
        ELSE IF 100 * AbsError < 30 * LatestActual THEN "moderate"
        ELSE "volatile"

\* C10 as claimed: when a forecast exists and the latest actual on or before
\* the latest forecast date is nonzero, the reported MAPE is
\* |actual - forecast|/actual*100, the score max(0, 100 - 2.5*MAPE) within
\* [0, 100], and the status predictable / moderate / volatile by MAPE < 15,
\* < 30.
C10_ExactMape ==
    ForecastScored =>
        /\ "actual" \in DOMAIN forecast_accuracy
        /\ forecast_accuracy.actual = LatestActual
        /\ forecast_accuracy.mape * LatestActual = 1000 * AbsError
        /\ forecast_accuracy.score * LatestActual
            = Clamp(1000 * LatestActual - 2500 * AbsError, 0, 1000 * LatestActual)
        /\ C10_Status

\* C10 as amended: when moreover the trend table has at least 7 rows, the
\* reported MAPE and score are those values rounded to one decimal (at most
\* 0.05 away), the score within [0, 100], the status decided by the unrounded
\* MAPE, the actual the most recent observation not after the latest
\* forecast date.
C10_RoundedMape ==
    (ForecastScored /\ Len(trends) >= 7) =>
        /\ "actual" \in DOMAIN forecast_accuracy
        /\ forecast_accuracy.actual = LatestActual
        /\ forecast_accuracy.forecast = LatestForecast
        /\ 2 * Distance(forecast_accuracy.mape * LatestActual, 1000 * AbsError)
            <= LatestActual
        /\ 2 * Distance(forecast_accuracy.score * LatestActual,
                        Clamp(1000 * LatestActual - 2500 * AbsError,
                              0, 1000 * LatestActual))
            <= LatestActual
        /\ forecast_accuracy.score >= 0
        /\ forecast_accuracy.score <= 1000
        /\ C10_Status

\* A forecast scored against an earlier day's actual, with a MAPE that had to
\* be rounded.
C10_Witness ==
    /\ ForecastScored
    /\ Len(trends) >= 7
    /\ Cardinality(RowsUpToForecast) < Len(trends)
    /\ forecast_accuracy.mape * LatestActual # 1000 * AbsError

\* The latest actual is zero or missing, or there is no forecast to match
NoUsableActual ==
    IF forecasts = <<>> THEN TRUE
    ELSE IF RowsUpToForecast = {} THEN TRUE
    ELSE LatestActual = 0

\* C11: when the latest actual is zero or missing (no observation on or
\* before the latest forecast date) or the forecast table is empty, the
\* forecast scorer reports the neutral 50.0 with a status among
\* insufficient_data, no_actual_data and no_forecast_match.
C11_NeutralWithoutActual ==
    (forecast_accuracy # None /\ NoUsableActual) =>
        /\ forecast_accuracy.score = 500
        /\ forecast_accuracy.mape = "None"
        /\ forecast_accuracy.status
            \in {"insufficient_data", "no_actual_data", "no_forecast_match"}

-----------------------------------------------------------------------------
(***************************************************************************)
(* Alert detection (src/etl/generate_alerts.py).                           *)
(*                                                                         *)
(* Numbers.  Job counts are integers, so a rolling window is kept as its   *)
(* sum, its sum of squares and its size, and the two tests are decided     *)
(* exactly.  With d = count - mean and s the sample standard deviation,    *)
(* z = d / (s + 1e-6) > t holds exactly when d > 0 and d^2 > t^2 s^2: the  *)
(* two sides of d^2 > t^2 s^2 differ by a multiple of 1/(n^2 (n-1)),       *)
(* n <= 7, which the 1e-6 cannot bridge for counts below 800, and at       *)
(* d = t s the 1e-6 makes z smaller than t.  In the same way               *)
(* (count - mean) / (mean + 1e-6) * 100 < -t holds exactly when            *)
(* 100 n count < (100 - t) sum.  A window of one row has the standard      *)
(* deviation NaN, and no comparison with NaN holds.                        *)
(***************************************************************************)

SPIKE_THRESHOLD_SIGMA == 2
DROP_THRESHOLD_PERCENT == 30

MaxObservations == 21  \* daily observations of a category

(* Inputs: the category table *)

CategoryNames == <<"Data", "ML">>

\* The job count of the i-th observation of a category, by shape of history
Pattern(p, i) ==
    CASE p = "flat" -> 10
      [] p = "spike18" -> IF i = 18 THEN 35 ELSE 10
      [] p = "scenario8" -> IF i = 8 THEN 20 ELSE 5
      [] p = "early" -> IF i = 6 THEN 9 ELSE IF i = 11 THEN 7 ELSE 5
      [] p = "step" -> IF i = 14 THEN 15 ELSE IF i = 15 THEN 20 ELSE 10
      [] p = "dip" -> IF i = 10 THEN 6 ELSE 10
      [] p = "dip_tie" -> IF i = 11 THEN 2 ELSE 3
      [] p = "crash" -> IF i = 12 THEN 0 ELSE 10
      [] p = "saw" -> (i * i) % 7
      [] p = "zero" -> 0
      [] p = "last" -> IF i >= 13 THEN 1 + 8 * (i % 2)
                       ELSE IF i = 5 THEN 0 ELSE 4

Patterns ==
    {"flat", "spike18", "scenario8", "early", "step", "dip", "dip_tie",
     "crash", "saw", "last"}

\* n daily rows of category c, one every gap days
CategoryRows(c, n, p, gap) ==
    { [posted_date |-> gap * i, category_name |-> CategoryNames[c],
       job_count |-> Pattern(p, i), rank |-> c] : i \in 1..n }

\* df.sort_values(['posted_date', group_col]), the order of the file
RECURSIVE FileOrder(_)
FileOrder(rows) ==
    IF rows = {} THEN <<>>
    ELSE LET first == CHOOSE r \in rows : \A q \in rows :
                        \/ r.posted_date < q.posted_date
                        \/ r.posted_date = q.posted_date /\ r.rank <= q.rank
         IN  <<[posted_date |-> first.posted_date,
                category_name |-> first.category_name,
                job_count |-> first.job_count]>> \o FileOrder(rows \ {first})

CategoryTable(n1, p1, n2, p2, gap) ==
    FileOrder(CategoryRows(2, n1, p1, 1) \cup CategoryRows(1, n2, p2, gap))

\* "ML" with 13, 14, 20 or MaxObservations days of every shape, beside "Data"
\* with no, 8 or 14 days
CategoryInputs ==
    { CategoryTable(n1, p1, n2, p2, gap) :
        n1 \in {13, 14, 20, MaxObservations}, p1 \in Patterns,
        n2 \in {0, 8, 14}, p2 \in {"scenario8", "crash"}, gap \in {1, 2} }

(* detect_spikes and detect_drops *)

\* df['category_name'].unique(): the names in order of first appearance
RECURSIVE Unique(_, _)
Unique(df, seen) ==
    IF df = <<>> THEN <<>>
    ELSE IF df[1].category_name \in seen THEN Unique(Tail(df), seen)
    ELSE <<df[1].category_name>>
            \o Unique(Tail(df), seen \cup {df[1].category_name})

\* df[df['category_name'] == category].sort_values('posted_date')
CategoryData(df, category) ==
    SortValuesByDate(SelectSeq(df, LAMBDA row : row.category_name = category))

RECURSIVE SumSquares(_)
SumSquares(s) ==
    IF s = <<>> THEN 0
    ELSE s[1].job_count * s[1].job_count + SumSquares(Tail(s))

\* Mutant: the window ends at the row before the one it is computed for.
Rolling_previous(data, i, window) ==
    LET rows == SubSeq(data, Max(1, i - window), i - 1)
    IN  [sum |-> SumJobCount(rows), sumsq |-> SumSquares(rows), n |-> Len(rows)]

\* .rolling(window=window, min_periods=1) at row i: the rows of the window
Rolling(data, i, window) ==
    LET rows == SubSeq(data, Max(1, i - window + 1), i)
    IN  [sum |-> SumJobCount(rows), sumsq |-> SumSquares(rows), n |-> Len(rows)]

\* Mutant: the standard deviation of the population (ddof = 0)
ZScoreExceeds_population(count, w, t) ==
    /\ w.n >= 1
    /\ w.n * count > w.sum
    /\ (w.n * count - w.sum) * (w.n * count - w.sum)
        > t * t * (w.n * w.sumsq - w.sum * w.sum)

\* (count - mean) / (std + 1e-6) > t, std the sample standard deviation
ZScoreExceeds(count, w, t) ==
    /\ w.n >= 2
    /\ w.n * count > w.sum
    /\ (w.n - 1) * (w.n * count - w.sum) * (w.n * count - w.sum)
        > t * t * w.n * (w.n * w.sumsq - w.sum * w.sum)

\* Mutant: a deviation of exactly -t percent is below the threshold.
PctBelow_inclusive(count, w, t) ==
    /\ w.n >= 1
    /\ w.sum > 0
    /\ 100 * w.n * count <= (100 - t) * w.sum

\* (count - mean) / (mean + 1e-6) * 100 < -t
PctBelow(count, w, t) ==
    /\ w.n >= 1
    /\ 100 * w.n * count < (100 - t) * w.sum

\* (count - mean) / (mean + 1e-6) * 100 > t
PctAbove(count, w, t) ==
    /\ w.n >= 1
    /\ 100 * w.n * count > (100 + t) * w.sum

\* Mutant: the mean and the deviation are taken over 14 rows.
RECURSIVE SpikeRows_wide(_, _, _)
SpikeRows_wide(data, category, i) ==
    IF i > Len(data) THEN <<>>
    ELSE
        LET w == Rolling(data, i, 14)
            row == data[i]
            rest == SpikeRows_wide(data, category, i + 1)
        IN  IF ZScoreExceeds(row.job_count, w, SPIKE_THRESHOLD_SIGMA)
            THEN <<[type |-> "spike",
                    severity |-> IF ZScoreExceeds(row.job_count, w, 3)
                                 THEN "high" ELSE "medium",
                    category |-> category,
                    date |-> row.posted_date,
                    job_count |-> row.job_count,
                    expected_count |-> [sum |-> w.sum, n |-> w.n]]>> \o rest
            ELSE rest

\* The spike alerts of the rows i.. of one category
RECURSIVE SpikeRows(_, _, _)
SpikeRows(data, category, i) ==
    IF i > Len(data) THEN <<>>
    ELSE
        LET w == Rolling(data, i, 7)
            row == data[i]
            rest == SpikeRows(data, category, i + 1)
        IN  IF ZScoreExceeds(row.job_count, w, SPIKE_THRESHOLD_SIGMA)
            THEN <<[type |-> "spike",
                    severity |-> IF ZScoreExceeds(row.job_count, w, 3)
                                 THEN "high" ELSE "medium",
                    category |-> category,
                    date |-> row.posted_date,
                    job_count |-> row.job_count,
                    expected_count |-> [sum |-> w.sum, n |-> w.n]]>> \o rest
            ELSE rest

\* Mutant: a short category is evaluated like any other.
RECURSIVE SpikesOf_unguarded(_, _)
SpikesOf_unguarded(df, categories) ==
    IF categories = <<>> THEN <<>>
    ELSE
        LET category_data == CategoryData(df, categories[1])
        IN  SpikeRows(category_data, categories[1], 1)
                \o SpikesOf_unguarded(df, Tail(categories))

\* The loop of detect_spikes over the categories
RECURSIVE SpikesOf(_, _)
SpikesOf(df, categories) ==
    IF categories = <<>> THEN <<>>
    ELSE
        LET category_data == CategoryData(df, categories[1])
            rest == SpikesOf(df, Tail(categories))
        IN  IF Len(category_data) < 14 THEN rest
            ELSE SpikeRows(category_data, categories[1], 1) \o rest

detect_spikes(df) == SpikesOf(df, Unique(df, {}))

\* Mutant: a deviation of more than the threshold in either direction.
DropTest_absolute(count, w) ==
    \/ PctBelow(count, w, DROP_THRESHOLD_PERCENT)
    \/ PctAbove(count, w, DROP_THRESHOLD_PERCENT)

\* category_data['pct_change'] < -DROP_THRESHOLD_PERCENT
DropTest(count, w) == PctBelow(count, w, DROP_THRESHOLD_PERCENT)

\* The drop alerts of the rows i.. of one category
RECURSIVE DropRows(_, _, _)
DropRows(data, category, i) ==
    IF i > Len(data) THEN <<>>
    ELSE
        LET w == Rolling(data, i, 7)
            row == data[i]
            rest == DropRows(data, category, i + 1)
        IN  IF DropTest(row.job_count, w)
            THEN <<[type |-> "drop",
                    severity |-> IF \/ PctBelow(row.job_count, w, 50)
                                    \/ PctAbove(row.job_count, w, 50)
                                 THEN "high" ELSE "medium",
                    category |-> category,
                    date |-> row.posted_date,
                    job_count |-> row.job_count,
                    expected_count |-> [sum |-> w.sum, n |-> w.n]]>> \o rest
            ELSE rest

\* The loop of detect_drops over the categories
RECURSIVE DropsOf(_, _)
DropsOf(df, categories) ==
    IF categories = <<>> THEN <<>>
    ELSE
        LET category_data == CategoryData(df, categories[1])
            rest == DropsOf(df, Tail(categories))
        IN  IF Len(category_data) < 14 THEN rest
            ELSE DropRows(category_data, categories[1], 1) \o rest

detect_drops(df) == DropsOf(df, Unique(df, {}))

(* detect_skill_trends *)

\* Mutant: a skill without a previous count is flagged when it has a recent
\* one.
RECURSIVE SkillTrendAlerts_new_skills(_, _)
SkillTrendAlerts_new_skills(recent_skills, previous_skills) ==
    IF recent_skills = <<>> THEN <<>>
    ELSE
        LET skill == recent_skills[1].skill
            recent_count == recent_skills[1].count
            previous_count == GetCount(previous_skills, skill)
            rest == SkillTrendAlerts_new_skills(Tail(recent_skills), previous_skills)
        IN  IF 100 * (recent_count - previous_count) > 50 * previous_count
            THEN <<[type |-> "skill_trend", severity |-> "medium",
                    skill |-> skill,
                    recent_count |-> recent_count,
                    previous_count |-> previous_count,
                    growth_rate |-> [num |-> 100 * (recent_count - previous_count),
                                     den |-> previous_count]]>> \o rest
            ELSE rest

\* The loop over recent_skills.items(): growth_rate =
\* ((recent_count - previous_count) / previous_count) * 100, kept as a
\* fraction
RECURSIVE SkillTrendAlerts(_, _)
SkillTrendAlerts(recent_skills, previous_skills) ==
    IF recent_skills = <<>> THEN <<>>
    ELSE
        LET skill == recent_skills[1].skill
            recent_count == recent_skills[1].count
            previous_count == GetCount(previous_skills, skill)
            rest == SkillTrendAlerts(Tail(recent_skills), previous_skills)
        IN  IF previous_count = 0 THEN rest
            ELSE IF 100 * (recent_count - previous_count) > 50 * previous_count
            THEN <<[type |-> "skill_trend", severity |-> "medium",
                    skill |-> skill,
                    recent_count |-> recent_count,
                    previous_count |-> previous_count,
                    growth_rate |-> [num |-> 100 * (recent_count - previous_count),
                                     den |-> previous_count]]>> \o rest
            ELSE rest

\* detect_skill_trends, given the files that exist and skill_frequency.json
detect_skill_trends(fs, skill_data) ==
    IF "skill_frequency.json" \notin fs THEN <<>>
    ELSE
        LET date_freq == IF "by_date" \in DOMAIN skill_data
                         THEN skill_data.by_date ELSE <<>>
            sorted_dates == Sorted(DOMAIN date_freq)
        IN  IF Len(sorted_dates) < 14 THEN <<>>
            ELSE
                LET recent_dates == Tail_(sorted_dates, 7)
                    previous_dates == Head_(Tail_(sorted_dates, 14), 7)
                    recent_skills == AggregateSkills(<<>>, date_freq, recent_dates)
                    previous_skills == AggregateSkills(<<>>, date_freq, previous_dates)
                IN  SkillTrendAlerts(recent_skills, previous_skills)

(* Actions of generate_alerts *)

\* Line 45
DetectSpikes ==
    /\ pc = "detect_spikes"
    /\ spike_alerts' = detect_spikes(category_counts)
    /\ pc' = "detect_drops"
    /\ UNCHANGED <<jmmiVars, skills, aggregateVars, pipelineVars,
                   category_counts, drop_alerts, skill_alerts>>

\* Line 49
DetectDrops ==
    /\ pc = "detect_drops"
    /\ drop_alerts' = detect_drops(category_counts)
    /\ pc' = "detect_skill_trends"
    /\ UNCHANGED <<jmmiVars, skills, aggregateVars, pipelineVars,
                   category_counts, spike_alerts, skill_alerts>>

\* Line 53
DetectSkillTrends ==
    /\ pc = "detect_skill_trends"
    /\ skill_alerts' = detect_skill_trends(files, skills)
    /\ pc' = "add_metadata"
    /\ UNCHANGED <<jmmiVars, skills, aggregateVars, pipelineVars,
                   category_counts, spike_alerts, drop_alerts>>

\* generate_alerts has read the category table cc and is at position p,
\* with skill_frequency.json holding s
AlertsEntered(p, fs, cc, s) ==
    /\ pc = p
    /\ now = Clock
    /\ files = fs
    /\ trends = <<>>
    /\ skills = s
    /\ forecasts = <<>>
    /\ alerts = <<>>
    /\ companies = <<>>
    /\ posting_velocity = None
    /\ skill_velocity = None
    /\ forecast_accuracy = None
    /\ market_activity = None
    /\ company_diversity = None
    /\ jmmi_score = None
    /\ result = None
    /\ category_counts = cc
    /\ spike_alerts = <<>>
    /\ drop_alerts = <<>>
    /\ skill_alerts = <<>>
    /\ jobs = <<>>
    /\ daily_category_counts = <<>>
    /\ daily_location_counts = <<>>
    /\ daily_overall_counts = <<>>
    /\ skill_frequency = None
    /\ NoPipeline

\* detect_spikes and detect_drops on every category table of CategoryInputs
InitDetectAlerts ==
    \E cc \in CategoryInputs :
        AlertsEntered("detect_spikes", AllFiles, cc, NoSkills)

SpecDetectAlerts == InitDetectAlerts /\ [][DetectSpikes \/ DetectDrops]_vars

\* detect_skill_trends on every skill table of SkillInputs, and without the
\* file
InitSkillTrends ==
    \/ \E s \in SkillInputs :
            AlertsEntered("detect_skill_trends", AllFiles, <<>>, s)
    \/ AlertsEntered("detect_skill_trends",
                     AllFiles \ {"skill_frequency.json"}, <<>>, NoSkills)

SpecSkillTrends == InitSkillTrends /\ [][DetectSkillTrends]_vars

-----------------------------------------------------------------------------
(* Claims about detect_spikes and detect_drops *)

SpikesDetected == pc \in {"detect_drops", "detect_skill_trends"}
DropsDetected == pc = "detect_skill_trends"

\* The rows of a category, and the number of earlier rows of its category
\* that a row has
Observations(category) ==
    { i \in DOMAIN category_counts :
        category_counts[i].category_name = category }
Categories == { category_counts[i].category_name : i \in DOMAIN category_counts }
Earlier(i) ==
    Cardinality({ j \in Observations(category_counts[i].category_name) :
                    category_counts[j].posted_date < category_counts[i].posted_date })

\* The trailing 7 observations of row i's category, row i included
Trailing(i) ==
    { j \in Observations(category_counts[i].category_name) :
        /\ category_counts[j].posted_date <= category_counts[i].posted_date
        /\ Earlier(i) - Earlier(j) < 7 }

Counts == [i \in DOMAIN category_counts |-> category_counts[i].job_count]
Squares == [i \in DOMAIN category_counts |-> Counts[i] * Counts[i]]

\* The z-score of row i exceeds t: with n the size of the window, d =
\* count - sum/n and variance (sumsq - sum^2/n)/(n - 1), d > 0 and
\* d^2 > t^2 variance
ZScoreAbove(i, t) ==
    LET n == Cardinality(Trailing(i))
        sum == SumOver(Counts, Trailing(i))
        sumsq == SumOver(Squares, Trailing(i))
        d == n * Counts[i] - sum
    IN  /\ n > 1
        /\ d > 0
        /\ (n - 1) * d * d > t * t * n * (n * sumsq - sum * sum)

\* The percent deviation of row i from its rolling mean is below -t
DeviationBelow(i, t) ==
    LET n == Cardinality(Trailing(i))
        sum == SumOver(Counts, Trailing(i))
    IN  100 * n * Counts[i] < (100 - t) * sum

\* The alerts of a list that are about row i
AlertsAbout(list, i) ==
    { k \in DOMAIN list :
        /\ list[k].category = category_counts[i].category_name
        /\ list[k].date = category_counts[i].posted_date }

\* C12: a category with fewer than 14 observations never produces a Spike
\* or a Drop alert, whatever its counts, and both detectors complete; a
\* category with 14 or more observations is evaluated.
C12_ShortCategoriesSkipped ==
    /\ SpikesDetected =>
        \A c \in Categories :
            IF Cardinality(Observations(c)) < 14
            THEN \A k \in DOMAIN spike_alerts : spike_alerts[k].category # c
            ELSE (\E i \in Observations(c) : ZScoreAbove(i, 2))
                    => \E k \in DOMAIN spike_alerts : spike_alerts[k].category = c
    /\ DropsDetected =>
        \A c \in Categories :
            IF Cardinality(Observations(c)) < 14
            THEN \A k \in DOMAIN drop_alerts : drop_alerts[k].category # c
            ELSE (\E i \in Observations(c) : DeviationBelow(i, 30))
                    => \E k \in DOMAIN drop_alerts : drop_alerts[k].category = c

\* Both detectors have run on a table with a category of exactly 13
\* observations, one of them more than 2 standard deviations above its
\* rolling mean and one more than 30% below, while another category got
\* alerts.
C12_Witness ==
    /\ DropsDetected
    /\ \E c \in Categories :
        /\ Cardinality(Observations(c)) = 13
        /\ \E i \in Observations(c) : ZScoreAbove(i, 2)
        /\ \E i \in Observations(c) : DeviationBelow(i, 30)
    /\ drop_alerts # <<>>

\* C13: for a category with at least 14 observations a Spike alert is
\* emitted for an observation if and only if its z-score over the trailing 7
\* observations of the category exceeds 2.0; the severity is high if the
\* z-score exceeds 3.0 and medium otherwise; a flat window gives no alert.
C13_SpikeIffZScore ==
    SpikesDetected =>
        \A i \in DOMAIN category_counts :
            Cardinality(Observations(category_counts[i].category_name)) >= 14 =>
                /\ Cardinality(AlertsAbout(spike_alerts, i))
                    = IF ZScoreAbove(i, 2) THEN 1 ELSE 0
                /\ \A k \in AlertsAbout(spike_alerts, i) :
                    /\ spike_alerts[k].type = "spike"
                    /\ spike_alerts[k].job_count = Counts[i]
                    /\ spike_alerts[k].severity
                        = IF ZScoreAbove(i, 3) THEN "high" ELSE "medium"
                /\ (\A j \in Trailing(i) : Counts[j] = Counts[i])
                    => AlertsAbout(spike_alerts, i) = {}

\* A category of 14 or more observations with a spike alert, an observation
\* above its rolling mean without one, and a flat window.
C13_Witness ==
    /\ SpikesDetected
    /\ \E i, j, f \in DOMAIN category_counts :
        /\ category_counts[i].category_name = category_counts[j].category_name
        /\ category_counts[i].category_name = category_counts[f].category_name
        /\ Cardinality(Observations(category_counts[i].category_name)) >= 14
        /\ AlertsAbout(spike_alerts, i) # {}
        /\ Earlier(i) < 6
        /\ AlertsAbout(spike_alerts, j) = {}
        /\ Cardinality(Trailing(j)) * Counts[j] > SumOver(Counts, Trailing(j))
        /\ Earlier(f) >= 6
        /\ \A k \in Trailing(f) : Counts[k] = Counts[f]

\* The categories with 20 observations, all 10 except the 18th which is 35
ScenarioCategories ==
    { c \in Categories :
        /\ Cardinality(Observations(c)) = 20
        /\ \A i \in Observations(c) :
            Counts[i] = IF Earlier(i) = 17 THEN 35 ELSE 10 }

\* C14: a category with 20 daily observations, all equal to 10 except day 18
\* which is 35, produces a Spike alert for day 18 and for no other day, with
\* severity high if that day's z-score exceeds 3 and medium otherwise.
C14_ScenarioSpike ==
    SpikesDetected =>
        \A c \in ScenarioCategories :
            \E k \in DOMAIN spike_alerts :
                /\ spike_alerts[k].category = c
                /\ \A m \in DOMAIN spike_alerts :
                    spike_alerts[m].category = c => m = k
                /\ \E i \in Observations(c) :
                    /\ Earlier(i) = 17
                    /\ spike_alerts[k].date = category_counts[i].posted_date
                    /\ spike_alerts[k].job_count = 35
                    /\ spike_alerts[k].severity
                        = IF ZScoreAbove(i, 3) THEN "high" ELSE "medium"

\* The scenario category has been evaluated and its alert is medium.
C14_Witness ==
    /\ SpikesDetected
    /\ ScenarioCategories # {}
    /\ \E k \in DOMAIN spike_alerts :
        /\ spike_alerts[k].category \in ScenarioCategories
        /\ spike_alerts[k].severity = "medium"

\* C15: for a category with at least 14 observations a Drop alert is emitted
\* for an observation if and only if its percent deviation from the mean of
\* the trailing 7 observations is below -30; the severity is high if the
\* deviation exceeds 50 in absolute value and medium otherwise.
C15_DropIffDeviation ==
    DropsDetected =>
        \A i \in DOMAIN category_counts :
            Cardinality(Observations(category_counts[i].category_name)) >= 14 =>
                /\ Cardinality(AlertsAbout(drop_alerts, i))
                    = IF DeviationBelow(i, 30) THEN 1 ELSE 0
                /\ \A k \in AlertsAbout(drop_alerts, i) :
                    /\ drop_alerts[k].type = "drop"
                    /\ drop_alerts[k].job_count = Counts[i]
                    /\ drop_alerts[k].severity
                        = IF DeviationBelow(i, 50) THEN "high" ELSE "medium"

\* A category of 14 or more observations with a medium drop, a high drop and
\* an observation exactly 30% below its rolling mean, which is not a drop.
C15_Witness ==
    /\ DropsDetected
    /\ \E k, m \in DOMAIN drop_alerts :
        /\ drop_alerts[k].severity = "medium"
        /\ drop_alerts[m].severity = "high"
    /\ \E MLtie \in {c \in Categories : Cardinality(Observations(c)) >= 14} :
        \E i \in Observations(MLtie) :
            /\ Counts[i] > 0
            /\ 100 * Cardinality(Trailing(i)) * Counts[i]
                = 70 * SumOver(Counts, Trailing(i))
            /\ AlertsAbout(drop_alerts, i) = {}

\* C16: no (category, date) pair is flagged both as a Spike and as a Drop.
C16_NeverSpikeAndDrop ==
    DropsDetected =>
        \A k \in DOMAIN spike_alerts, m \in DOMAIN drop_alerts :
            ~ (/\ spike_alerts[k].category = drop_alerts[m].category
               /\ spike_alerts[k].date = drop_alerts[m].date)

\* One category has both a spike alert and a drop alert, on different dates.
C16_Witness ==
    /\ DropsDetected
    /\ \E k \in DOMAIN spike_alerts, m \in DOMAIN drop_alerts :
        /\ spike_alerts[k].category = drop_alerts[m].category
        /\ spike_alerts[k].date # drop_alerts[m].date

-----------------------------------------------------------------------------
(* Claims about detect_skill_trends *)

SkillTrendsDetected == pc = "add_metadata"

\* C17: detect_skill_trends emits a SkillTrend alert for a skill if and only
\* if by_date holds at least 14 dates, the skill's total over the 7
\* preceding dates is nonzero and its total over the 7 most recent dates
\* exceeds it by more than 50%; a skill with no previous count is never
\* flagged, and with fewer than 14 dates no alert is emitted.
C17_SkillTrendIff ==
    SkillTrendsDetected =>
        /\ { skill_alerts[k].skill : k \in DOMAIN skill_alerts }
            = IF Cardinality(DOMAIN skills.by_date) >= 14
              THEN TrendingSkills ELSE {}
        /\ \A k, m \in DOMAIN skill_alerts :
            skill_alerts[k].skill = skill_alerts[m].skill => k = m
        /\ \A k \in DOMAIN skill_alerts :
            /\ skill_alerts[k].type = "skill_trend"
            /\ skill_alerts[k].previous_count # 0

\* Alerts were emitted while a skill seen only in the recent window was not
\* flagged.
C17_Witness ==
    /\ SkillTrendsDetected
    /\ Cardinality(DOMAIN skills.by_date) >= 14
    /\ skill_alerts # <<>>
    /\ \E s \in SkillsSeen :
        /\ SkillTotal(s, DatesRanked(7, 14)) = 0
        /\ SkillTotal(s, DatesRanked(0, 7)) > 0
        /\ \A k \in DOMAIN skill_alerts : skill_alerts[k].skill # s

-----------------------------------------------------------------------------
(***************************************************************************)
(* Aggregation (src/etl/aggregate_counts.py).                              *)
(*                                                                         *)
(* A date is a day number; str(posted_date)[:10] is the fixed-width ISO    *)
(* date, whose lexicographic order is the order of the day numbers.  A     *)
(* rolling mean is kept as the sum and the size of its window.             *)
(***************************************************************************)

NaT == -1              \* the posted_date that pd.to_datetime could not parse

MaxDays == 32          \* days on which the main category has postings

(* Inputs: the cleaned jobs *)

\* config/categories_mapping.yml: cluster id -> category name
CategoryMapping == [c \in {0, 1} |-> CategoryNames[c + 1]]

\* The values of the group columns, in the order sort_values puts them
GroupOrder == <<"All", "Data", "ML", "NYC", "Remote", "Unknown">>

RankOf(name) == CHOOSE k \in DOMAIN GroupOrder : GroupOrder[k] = name

\* The number of postings of the main category on its i-th day
PostingsOn(p, i) ==
    CASE p = "one" -> 1
      [] p = "ramp" -> 1 + (i % 3)
      [] p = "burst" -> IF i = 8 THEN 5 ELSE 1
      [] p = "saw" -> 1 + ((i * i) % 4)

PostingPatterns == {"one", "ramp", "burst", "saw"}

\* The skills field of a job: a list (numpy array) of names
SkillList(items) == [kind |-> "list", items |-> items]

NoSalary == -1         \* a salary that is NaN

\* A job of the company "Acme" without salaries
Job(date, category, location, skill_list) ==
    [posted_date |-> date, category |-> category,
     location_clean |-> location, skills |-> skill_list,
     company_name_clean |-> "Acme", salary_min |-> NoSalary,
     salary_max |-> NoSalary]

\* k postings of cluster 1 on one date, in alternating locations, one in
\* three without a location
PostingsOfDay(date, k) ==
    [j \in 1..k |->
        Job(date, 1,
            IF (date + j) % 3 = 0 THEN "NaN"
            ELSE IF (date + j) % 3 = 1 THEN "NYC" ELSE "Remote",
            SkillList(<<>>))]

RECURSIVE MainPostings(_, _, _)
MainPostings(n, p, gap) ==
    IF n = 0 THEN <<>>
    ELSE MainPostings(n - 1, p, gap) \o PostingsOfDay(gap * n, PostingsOn(p, n))

\* jobs_clean.parquet: n days of cluster 1, one every gap days; n2 days of
\* cluster 0, one every 2 days; a posting of an unmapped cluster and one
\* without a valid date
JobsTable(n, p, gap, n2) ==
    <<Job(NaT, 0, "NYC", SkillList(<<>>))>>
        \o [i \in 1..n2 |-> Job(2 * i, 0, "Remote", SkillList(<<>>))]
        \o MainPostings(n, p, gap)
        \o (IF n > 0 THEN <<Job(gap, 7, "NYC", SkillList(<<>>))>> ELSE <<>>)

JobInputs ==
    { JobsTable(n, p, gap, n2) :
        n \in {0, 1, 7, 8, 31, MaxDays}, p \in PostingPatterns,
        gap \in {1, 3}, n2 \in {0, 9} }

(* aggregate_counts: the daily counts *)

\* Lines 41-45: the category name of every job; jobs without a valid date
\* are removed
Prepared(js) ==
    LET named == [i \in DOMAIN js |->
                    [posted_date |-> js[i].posted_date,
                     category_name |->
                        IF js[i].category \in DOMAIN CategoryMapping
                        THEN CategoryMapping[js[i].category] ELSE "Unknown",
                     location_clean |-> js[i].location_clean,
                     skills |-> js[i].skills,
                     company_name_clean |-> js[i].company_name_clean,
                     salary_min |-> js[i].salary_min,
                     salary_max |-> js[i].salary_max]]
    IN  SelectSeq(named, LAMBDA row : row.posted_date # NaT)

\* df.groupby(['posted_date', col]).size().reset_index(name='job_count'):
\* one row per pair present; a missing value of col forms no group
GroupBySize(df, col) ==
    LET keys == { <<df[i].posted_date, df[i][col]>> : i \in DOMAIN df }
    IN  { (col :> k[2]) @@
          [posted_date |-> k[1],
           job_count |-> Cardinality({ i \in DOMAIN df :
                            df[i].posted_date = k[1] /\ df[i][col] = k[2] })] :
          k \in { q \in keys : q[2] # "NaN" } }

\* df.groupby('posted_date').size(), with category_name = 'All'
GroupByDate(df) ==
    { [posted_date |-> d, category_name |-> "All",
       job_count |-> Cardinality({ i \in DOMAIN df : df[i].posted_date = d })] :
      d \in { df[i].posted_date : i \in DOMAIN df } }

\* df.sort_values(['posted_date', group_col])
RECURSIVE SortValues(_, _)
SortValues(rows, group_col) ==
    IF rows = {} THEN <<>>
    ELSE LET first == CHOOSE r \in rows : \A q \in rows :
                        \/ r.posted_date < q.posted_date
                        \/ /\ r.posted_date = q.posted_date
                           /\ RankOf(r[group_col]) <= RankOf(q[group_col])
         IN  <<first>> \o SortValues(rows \ {first}, group_col)

\* Mutant: the window runs over the rows of every group.
GroupUpTo_all(df, i, group_col) == SubSeq(df, 1, i)

\* The rows of row i's group up to row i: what groupby(group_col) hands to
\* rolling()
GroupUpTo(df, i, group_col) ==
    SelectSeq(SubSeq(df, 1, i), LAMBDA row : row[group_col] = df[i][group_col])

\* x.rolling(window=window, min_periods=1).mean() at row i, within its group
RollingMean(df, i, group_col, window) ==
    LET rows == Tail_(GroupUpTo(df, i, group_col), window)
    IN  [sum |-> SumJobCount(rows), n |-> Len(rows)]

add_rolling_averages(rows, group_col) ==
    LET df == SortValues(rows, group_col)
    IN  [i \in DOMAIN df |->
            df[i] @@ [rolling_7d |-> RollingMean(df, i, group_col, 7),
                      rolling_30d |-> RollingMean(df, i, group_col, 30)]]

\* Lines 41-63
AggregateDaily ==
    /\ pc = "aggregate_daily"
    /\ LET df == Prepared(jobs)
       IN  /\ daily_category_counts' =
                add_rolling_averages(GroupBySize(df, "category_name"), "category_name")
           /\ daily_location_counts' =
                add_rolling_averages(GroupBySize(df, "location_clean"), "location_clean")
           /\ daily_overall_counts' =
                add_rolling_averages(GroupByDate(df), "category_name")
    /\ pc' = "skill_frequency"
    /\ UNCHANGED <<jmmiVars, skills, alertVars, pipelineVars, jobs,
                   skill_frequency>>

\* aggregate_counts has read the jobs js and is at position p
AggregateEntered(p, js) ==
    /\ pc = p
    /\ now = Clock
    /\ files = AllFiles
    /\ trends = <<>>
    /\ skills = NoSkills
    /\ forecasts = <<>>
    /\ alerts = <<>>
    /\ companies = <<>>
    /\ posting_velocity = None
    /\ skill_velocity = None
    /\ forecast_accuracy = None
    /\ market_activity = None
    /\ company_diversity = None
    /\ jmmi_score = None
    /\ result = None
    /\ category_counts = <<>>
    /\ spike_alerts = <<>>
    /\ drop_alerts = <<>>
    /\ skill_alerts = <<>>
    /\ jobs = js
    /\ daily_category_counts = <<>>
    /\ daily_location_counts = <<>>
    /\ daily_overall_counts = <<>>
    /\ skill_frequency = None
    /\ NoPipeline

\* The daily counts of every job table of JobInputs
InitAggregateDaily ==
    \E js \in JobInputs : AggregateEntered("aggregate_daily", js)

SpecAggregateDaily == InitAggregateDaily /\ [][AggregateDaily]_vars

-----------------------------------------------------------------------------
(* Claims about the daily counts *)

DailyCounted == pc = "skill_frequency"

\* The rows of row i's group in a table that are not after row i and have
\* fewer than window rows of the group after them up to row i
TrailingRows(table, group_col, i, window) ==
    LET same == { j \in DOMAIN table :
                    /\ table[j][group_col] = table[i][group_col]
                    /\ table[j].posted_date <= table[i].posted_date }
    IN  { j \in same :
            Cardinality({ k \in same :
                table[k].posted_date > table[j].posted_date }) < window }

\* rolling_7d and rolling_30d of every row of a table are the means over the
\* trailing 7 and 30 rows of the row's group
RollingMeansHold(table, group_col) ==
    \A i \in DOMAIN table :
        LET counts == [j \in DOMAIN table |-> table[j].job_count]
            earlier == Cardinality({ j \in DOMAIN table :
                        /\ table[j][group_col] = table[i][group_col]
                        /\ table[j].posted_date < table[i].posted_date })
            w7 == TrailingRows(table, group_col, i, 7)
            w30 == TrailingRows(table, group_col, i, 30)
        IN  /\ table[i].rolling_7d.n = Min(7, earlier + 1)
            /\ table[i].rolling_7d.n = Cardinality(w7)
            /\ table[i].rolling_7d.sum = SumOver(counts, w7)
            /\ table[i].rolling_30d.n = Min(30, earlier + 1)
            /\ table[i].rolling_30d.n = Cardinality(w30)
            /\ table[i].rolling_30d.sum = SumOver(counts, w30)

\* C18: in every DailyCount series (by category, by location, overall) and
\* every group, rolling_7d of the i-th observation of the group in date order
\* is the mean of job_count over the group's trailing min(7, i+1)
\* observations and rolling_30d over its trailing min(30, i+1); both are
\* defined for every row, windows count the rows present, and rows of other
\* groups never enter a group's window.
C18_RollingMeans ==
    DailyCounted =>
        /\ RollingMeansHold(daily_category_counts, "category_name")
        /\ RollingMeansHold(daily_location_counts, "location_clean")
        /\ RollingMeansHold(daily_overall_counts, "category_name")

\* A group with more than 30 observations on non-consecutive days, with rows
\* of another group on days inside its last window.
C18_Witness ==
    /\ DailyCounted
    /\ \E i, j, k \in DOMAIN daily_category_counts :
        /\ daily_category_counts[i].rolling_30d.n = 30
        /\ daily_category_counts[i].rolling_30d.sum
            > daily_category_counts[i].rolling_7d.sum
        /\ daily_category_counts[j].category_name
            = daily_category_counts[i].category_name
        /\ daily_category_counts[j].posted_date
            < daily_category_counts[i].posted_date - 90
        /\ daily_category_counts[k].category_name
            # daily_category_counts[i].category_name
        /\ daily_category_counts[k].posted_date
            > daily_category_counts[j].posted_date
        /\ j \notin TrailingRows(daily_category_counts, "category_name", i, 30)

-----------------------------------------------------------------------------
(* Inputs: jobs with skills *)

MaxSkillDates == 31    \* dates on which a job lists skills
MaxSkills == 101       \* distinct skills listed by one job

SkillName(i) == "skill" \o ToString(i)

\* The job of date d: the job of the last date lists the skills 1..wide, the
\* others one to three skills from number (d % 5) + 1 on
SkillsOfDay(d, nd, wide) ==
    IF d = nd THEN [i \in 1..wide |-> SkillName(i)]
    ELSE [i \in 1..(1 + (d % 3)) |-> SkillName((d % 5) + i)]

\* A job after the last date whose skills field is a list without entries,
\* null, a list of empty strings, or a single name
BlankJob(date, blank) ==
    CASE blank = "empty" -> <<Job(date, 0, "NYC", SkillList(<<>>))>>
      [] blank = "null" -> <<Job(date, 0, "NYC", [kind |-> "none"])>>
      [] blank = "blanks" -> <<Job(date, 0, "NYC", SkillList(<<"", "">>))>>
      [] blank = "scalar" ->
            <<Job(date, 0, "NYC", [kind |-> "scalar", value |-> "sql"])>>
      [] blank = "empty_scalar" ->
            <<Job(date, 0, "NYC", [kind |-> "scalar", value |-> ""])>>
      [] OTHER -> <<>>

\* jobs_clean.parquet: one job with skills on each of the dates 1..nd, of
\* clusters 0..cats-1 in turn; a job without a valid date; a blank job
SkillJobsTable(nd, wide, blank, cats) ==
    <<Job(NaT, 0, "NYC", SkillList(<<"sql", "excel">>))>>
        \o [d \in 1..nd |->
                Job(d, d % cats, "Remote", SkillList(SkillsOfDay(d, nd, wide)))]
        \o BlankJob(nd + 1, blank)

SkillJobInputs ==
    { SkillJobsTable(nd, wide, blank, cats) :
        nd \in {0, 5, 30, MaxSkillDates}, wide \in {1, 11, 21, MaxSkills},
        blank \in {"no", "empty", "null", "blanks", "scalar", "empty_scalar"},
        cats \in {1, 2} }

(* compute_skill_frequency *)

\* Lines 149-159: the skills of a row as a list of non-empty strings
SkillsList(row) ==
    CASE row.skills.kind = "none" -> <<>>
      [] row.skills.kind = "list" ->
            SelectSeq(row.skills.items, LAMBDA s : s # "")
      [] row.skills.kind = "scalar" -> <<row.skills.value>>

\* The skills lists of the rows, one extended by the next
RECURSIVE Collect(_)
Collect(df) ==
    IF df = <<>> THEN <<>> ELSE SkillsList(df[1]) \o Collect(Tail(df))

\* Counter(skills_list), as its items in first-seen order
Counter(skills_list) ==
    LET n == Len(skills_list)
        is_first == [i \in 1..n |->
                        \A j \in 1..(i - 1) : skills_list[j] # skills_list[i]]
        firsts == { i \in 1..n : is_first[i] }
        position == [i \in 1..n |-> Cardinality({ j \in firsts : j <= i })]
    IN  [k \in 1..Cardinality(firsts) |->
            LET i == CHOOSE f \in firsts : position[f] = k
            IN  [skill |-> skills_list[i],
                 count |-> Cardinality({ j \in 1..n :
                                skills_list[j] = skills_list[i] })]]

\* counter.most_common(n): by count descending, equal counts in first-seen
\* order
most_common(counter, n) ==
    LET before == [k \in DOMAIN counter |->
                    Cardinality({ j \in DOMAIN counter :
                        \/ counter[j].count > counter[k].count
                        \/ counter[j].count = counter[k].count /\ j < k })]
    IN  [r \in 1..Min(n, Len(counter)) |->
            counter[CHOOSE k \in DOMAIN counter : before[k] = r - 1]]

\* Mutant: only the most frequent skill is kept.
TopSkills_one(all_skills) == most_common(Counter(all_skills), 1)

\* skill_counter.most_common(100)
TopSkills(all_skills) == most_common(Counter(all_skills), 100)

\* Mutant: the first 30 dates are kept.
RecentDates_oldest(keys) == Head_(Sorted(keys), 30)

\* sorted(skill_by_date.keys())[-30:]
RecentDates(keys) == Tail_(Sorted(keys), 30)

compute_skill_frequency(df) ==
    LET with_skills == SelectSeq(df, LAMBDA row : SkillsList(row) # <<>>)
        all_skills == Collect(with_skills)
        categories == { with_skills[i].category_name : i \in DOMAIN with_skills }
        dates == { with_skills[i].posted_date : i \in DOMAIN with_skills }
        recent_dates == RecentDates(dates)
    IN  [overall |-> TopSkills(all_skills),
         by_category |->
            [c \in categories |->
                most_common(Counter(
                    Collect(SelectSeq(with_skills,
                        LAMBDA row : row.category_name = c))), 20)],
         by_date |->
            [d \in { recent_dates[k] : k \in DOMAIN recent_dates } |->
                most_common(Counter(
                    Collect(SelectSeq(with_skills,
                        LAMBDA row : row.posted_date = d))), 10)]]

\* Line 67
SkillFrequency ==
    /\ pc = "skill_frequency"
    /\ skill_frequency' = compute_skill_frequency(Prepared(jobs))
    /\ pc' = "company_stats"
    /\ UNCHANGED <<jmmiVars, skills, alertVars, pipelineVars, jobs,
                   daily_category_counts,
                   daily_location_counts, daily_overall_counts>>

\* compute_skill_frequency on every job table of SkillJobInputs
InitSkillFrequency ==
    \E js \in SkillJobInputs : AggregateEntered("skill_frequency", js)

SpecSkillFrequency == InitSkillFrequency /\ [][SkillFrequency]_vars

-----------------------------------------------------------------------------
(* Claims about the skill frequency table *)

RECURSIVE SumCounts(_)
SumCounts(items) ==
    IF items = <<>> THEN 0 ELSE items[1].count + SumCounts(Tail(items))

AllPositive(items) == \A k \in DOMAIN items : items[k].count \in Nat \ {0}

\* C19: the sum of the counts in overall (the top 100 skills) is at least
\* the sum of the counts in any single by_category bucket (the top 20 skills
\* of that category), and every count is a positive integer.
C19_OverallDominatesBuckets ==
    skill_frequency # None =>
        /\ \A c \in DOMAIN skill_frequency.by_category :
            /\ SumCounts(skill_frequency.overall)
                >= SumCounts(skill_frequency.by_category[c])
            /\ AllPositive(skill_frequency.by_category[c])
        /\ AllPositive(skill_frequency.overall)
        /\ \A d \in DOMAIN skill_frequency.by_date :
            AllPositive(skill_frequency.by_date[d])

\* More than 100 distinct skills were seen: overall holds 100 of them and a
\* category bucket 20, two buckets exist, and a skill was counted twice.
C19_Witness ==
    /\ skill_frequency # None
    /\ Len(skill_frequency.overall) = 100
    /\ Cardinality(DOMAIN skill_frequency.by_category) > 1
    /\ \E c \in DOMAIN skill_frequency.by_category :
        /\ Len(skill_frequency.by_category[c]) = 20
        /\ skill_frequency.by_category[c][1].count > 1

\* The dates of the jobs with a valid date that carry at least one skill
SkillDates ==
    { jobs[i].posted_date :
        i \in { j \in DOMAIN jobs :
                /\ jobs[j].posted_date # NaT
                /\ \/ jobs[j].skills.kind = "scalar"
                   \/ /\ jobs[j].skills.kind = "list"
                      /\ \E k \in DOMAIN jobs[j].skills.items :
                            jobs[j].skills.items[k] # "" } }

-----------------------------------------------------------------------------
(* Claims about the severity of spike alerts *)

\* The square of the z-score of row i is at most 36/7
ZScoreAtMostSixOverRootSeven(i) ==
    LET n == Cardinality(Trailing(i))
        sum == SumOver(Counts, Trailing(i))
        sumsq == SumOver(Squares, Trailing(i))
        d == n * Counts[i] - sum
    IN  7 * (n - 1) * d * d <= 36 * n * (n * sumsq - sum * sum)

\* C28: no Spike alert ever has severity high: the trailing window of at
\* most 7 observations includes the observation being scored, so its
\* z-score is at most 6/sqrt(7), below 3.0; every Spike alert is medium.
C28_NoHighSpike ==
    SpikesDetected =>
        \A k \in DOMAIN spike_alerts :
            /\ spike_alerts[k].type = "spike"
            /\ spike_alerts[k].severity = "medium"
            /\ \A i \in DOMAIN category_counts :
                k \in AlertsAbout(spike_alerts, i) =>
                    /\ ~ZScoreAbove(i, 3)
                    /\ ZScoreAtMostSixOverRootSeven(i)

\* A spike alert for an observation whose six predecessors in the window
\* are all equal and lower: the largest z-score a window of 7 can give.
C28_Witness ==
    /\ SpikesDetected
    /\ \E i \in DOMAIN category_counts :
        /\ AlertsAbout(spike_alerts, i) # {}
        /\ Cardinality(Trailing(i)) = 7
        /\ \A j, k \in Trailing(i) \ {i} :
            Counts[j] = Counts[k] /\ Counts[j] < Counts[i]

-----------------------------------------------------------------------------
(* Claims about jobs without skills *)

\* The skill field of a job is absent or null, an empty list, or an empty
\* value
HasNoSkills(job) ==
    \/ job.skills.kind = "none"
    \/ job.skills.kind = "list" /\ job.skills.items = <<>>
    \/ job.skills.kind = "scalar" /\ job.skills.value = ""

SkillFrequencyComputed == pc = "company_stats"

\* C25: a job record with no skills (skill field absent, null, an empty
\* list, or an empty value) contributes nothing to the SkillFrequencyTable:
\* overall, by_category and by_date are the same with and without that
\* record; it adds no skill entry, no category bucket and no date key.
C25_NoSkillsContributeNothing ==
    SkillFrequencyComputed =>
        skill_frequency
            = compute_skill_frequency(
                Prepared(SelectSeq(jobs, LAMBDA job : ~HasNoSkills(job))))

-----------------------------------------------------------------------------
(***************************************************************************)
(* run_pipeline (src/etl/pipeline.py).                                     *)
(*                                                                         *)
(* pc is the position in run_pipeline: at the call of a stage function     *)
(* (the position at which the function is entered), at its return, at      *)
(* "finish" after the last stage, and "exited" once the process has        *)
(* ended.  A stage function returns a result with success true or false,   *)
(* or raises.  The clock may advance while a stage runs, by no more than   *)
(* MaxElapsed days over the run.                                           *)
(***************************************************************************)

MaxElapsed == 1  \* days that a run of the pipeline may take

StageNames ==
    <<"fetch", "clean", "skills", "clusters", "aggregate", "forecast",
      "alerts", "jmmi", "export">>

StageIndex(k) == CHOOSE i \in DOMAIN StageNames : StageNames[i] = k

\* The position at which the function of a stage is entered, and the one at
\* which it has returned
EntryOf ==
    [fetch |-> "fetch_jobs", clean |-> "clean_jobs",
     skills |-> "extract_skills", clusters |-> "cluster_jobs",
     aggregate |-> "aggregate_counts", forecast |-> "forecast_jobs",
     alerts |-> "generate_alerts", jmmi |-> "check_files",
     export |-> "export_json"]

ReturnOf ==
    [fetch |-> "fetch_returned", clean |-> "clean_returned",
     skills |-> "skills_returned", clusters |-> "clusters_returned",
     aggregate |-> "aggregate_returned", forecast |-> "forecast_returned",
     alerts |-> "alerts_returned", jmmi |-> "done",
     export |-> "export_returned"]

\* data/raw/jobs_{today}.parquet
TodayRawFile == "jobs_today.parquet"

\* Lines 40-45
NewExecutionStatus(t) ==
    [start_time |-> t, stages |-> <<>>, success |-> FALSE, error |-> "None"]

\* execution_status['stages'][k] = {'success': ..., ...}
WithStage(es, stage) == [es EXCEPT !.stages = Append(@, stage)]

\* Lines 217-219 of the exception handler
Failed(es, message) == [es EXCEPT !.success = FALSE, !.error = message]

\* What the function of stage k returns when its body is not followed
StageResults(k) ==
    IF k = "jmmi"
    THEN { [success |-> TRUE, jmmi |-> [overall_score |-> 500]],
           [success |-> FALSE, error |-> "jmmi error"] }
    ELSE { [success |-> TRUE, count |-> 1],
           [success |-> FALSE, error |-> k \o " error", count |-> 0] }

\* The result that run_pipeline holds of stage k
StageResult(k) == IF k = "jmmi" THEN result ELSE stage_result

\* The clock is read again, no earlier than before
ClockAdvances == \E t \in now..(Clock + MaxElapsed) : now' = t

\* Lines 216-237: an exception ends the run
Abort(es, message) ==
    /\ execution_status' = Failed(es, message)
    /\ pipeline_status' = execution_status'
    /\ exit_status' = 1
    /\ pc' = "exited"

\* The function of stage k is called and returns, or raises.
Call(k) ==
    /\ pc = EntryOf[k]
    /\ \/ /\ \E r \in StageResults(k) :
                IF k = "jmmi"
                THEN result' = r /\ stage_result' = stage_result
                ELSE stage_result' = r /\ result' = result
          /\ pc' = ReturnOf[k]
          /\ UNCHANGED <<execution_status, pipeline_status, exit_status>>
       \/ /\ Abort(execution_status, k \o " raised")
          /\ UNCHANGED <<stage_result, result>>
    /\ ClockAdvances
    /\ UNCHANGED <<files, trends, skills, forecasts, alerts, companies,
                   posting_velocity, skill_velocity, forecast_accuracy,
                   market_activity, company_diversity, jmmi_score,
                   alertVars, aggregateVars, company_stats, previous_run>>

\* Lines 53-67
CallFetch == Call("fetch")
\* Lines 100-104
CallClean == Call("clean")
\* Lines 114-118
CallSkills == Call("skills")
\* Lines 128-132
CallClusters == Call("clusters")
\* Lines 142-146
CallAggregate == Call("aggregate")
\* Lines 155-159
CallForecast == Call("forecast")
\* Lines 169-173
CallAlerts == Call("alerts")
\* Lines 183-187
CallJmmi == Call("jmmi")
\* Lines 198-202
CallExport == Call("export")

\* Mutant: a failed stage is recorded and the run goes on.
Record_continuing(k) ==
    /\ pc = ReturnOf[k]
    /\ execution_status' =
            WithStage(execution_status,
                      [name |-> k, success |-> StageResult(k).success])
    /\ pc' = IF k = "export" THEN "finish"
             ELSE EntryOf[StageNames[StageIndex(k) + 1]]
    /\ UNCHANGED <<pipeline_status, exit_status>>
    /\ UNCHANGED <<now, files, trends, skills, forecasts, alerts, companies,
                   posting_velocity, skill_velocity, forecast_accuracy,
                   market_activity, company_diversity, jmmi_score, result,
                   alertVars, aggregateVars, company_stats, stage_result,
                   previous_run>>

\* The result of stage k is recorded; the run goes on to the next stage if
\* the stage succeeded and ends otherwise.
Record(k) ==
    /\ pc = ReturnOf[k]
    /\ LET r == StageResult(k)
           recorded == WithStage(execution_status,
                                 [name |-> k, success |-> r.success])
       IN  IF r.success
           THEN /\ execution_status' = recorded
                /\ pc' = IF k = "export" THEN "finish"
                         ELSE EntryOf[StageNames[StageIndex(k) + 1]]
                /\ UNCHANGED <<pipeline_status, exit_status>>
           ELSE Abort(recorded, k \o " failed: " \o r.error)
    /\ UNCHANGED <<now, files, trends, skills, forecasts, alerts, companies,
                   posting_velocity, skill_velocity, forecast_accuracy,
                   market_activity, company_diversity, jmmi_score, result,
                   alertVars, aggregateVars, company_stats, stage_result,
                   previous_run>>

\* Mutant: a failed fetch ends the run whether or not the raw file of today
\* exists.
RecordFetch_uncached ==
    /\ pc = ReturnOf["fetch"]
    /\ IF stage_result.success
       THEN /\ execution_status' =
                    WithStage(execution_status,
                              [name |-> "fetch", success |-> TRUE])
            /\ pc' = EntryOf["clean"]
            /\ UNCHANGED <<pipeline_status, exit_status>>
       ELSE Abort(WithStage(execution_status,
                            [name |-> "fetch", success |-> FALSE]),
                  "Fetch stage failed and no cached data available")
    /\ UNCHANGED <<now, files, trends, skills, forecasts, alerts, companies,
                   posting_velocity, skill_velocity, forecast_accuracy,
                   market_activity, company_diversity, jmmi_score, result,
                   alertVars, aggregateVars, company_stats, stage_result,
                   previous_run>>

\* Lines 69-96: a failed fetch is replaced by the raw file of today, if any
RecordFetch ==
    /\ pc = ReturnOf["fetch"]
    /\ IF stage_result.success
       THEN /\ execution_status' =
                    WithStage(execution_status,
                              [name |-> "fetch", success |-> TRUE])
            /\ stage_result' = stage_result
            /\ pc' = EntryOf["clean"]
            /\ UNCHANGED <<pipeline_status, exit_status>>
       ELSE IF TodayRawFile \in files
       THEN /\ execution_status' =
                    WithStage(execution_status,
                              [name |-> "fetch", success |-> TRUE,
                               from_cache |-> TRUE])
            /\ stage_result' = [success |-> TRUE, count |-> 1,
                                from_cache |-> TRUE]
            /\ pc' = EntryOf["clean"]
            /\ UNCHANGED <<pipeline_status, exit_status>>
       ELSE /\ Abort(WithStage(execution_status,
                               [name |-> "fetch", success |-> FALSE]),
                     "Fetch stage failed and no cached data available")
            /\ stage_result' = stage_result
    /\ UNCHANGED <<now, files, trends, skills, forecasts, alerts, companies,
                   posting_velocity, skill_velocity, forecast_accuracy,
                   market_activity, company_diversity, jmmi_score, result,
                   alertVars, aggregateVars, company_stats, previous_run>>

\* Lines 105-112
RecordClean == Record("clean")
\* Lines 119-126
RecordSkills == Record("skills")
\* Lines 133-140
RecordClusters == Record("clusters")
\* Lines 147-153
RecordAggregate == Record("aggregate")
\* Lines 160-167
RecordForecast == Record("forecast")
\* Lines 174-181
RecordAlerts == Record("alerts")
\* Lines 188-196
RecordJmmi == Record("jmmi")
\* Lines 203-210
RecordExport == Record("export")

\* Lines 212-248: the run has succeeded
Finish ==
    /\ pc = "finish"
    /\ execution_status' = [execution_status EXCEPT !.success = TRUE]
    /\ pipeline_status' = execution_status'
    /\ exit_status' = 0
    /\ pc' = "exited"
    /\ UNCHANGED <<now, files, trends, skills, forecasts, alerts, companies,
                   posting_velocity, skill_velocity, forecast_accuracy,
                   market_activity, company_diversity, jmmi_score, result,
                   alertVars, aggregateVars, company_stats, stage_result,
                   previous_run>>

\* A run of which the stages named have succeeded, at position p, with the
\* given tables on disk
Running(p, t, fs, cc, tr, sk, fc, al, co, js, done, ps) ==
    /\ pc = p
    /\ now = t
    /\ files = fs
    /\ trends = tr
    /\ skills = sk
    /\ forecasts = fc
    /\ alerts = al
    /\ companies = co
    /\ posting_velocity = None
    /\ skill_velocity = None
    /\ forecast_accuracy = None
    /\ market_activity = None
    /\ company_diversity = None
    /\ jmmi_score = None
    /\ result = None
    /\ category_counts = cc
    /\ spike_alerts = <<>>
    /\ drop_alerts = <<>>
    /\ skill_alerts = <<>>
    /\ jobs = js
    /\ daily_category_counts = <<>>
    /\ daily_location_counts = <<>>
    /\ daily_overall_counts = <<>>
    /\ skill_frequency = None
    /\ company_stats = <<>>
    /\ stage_result = None
    /\ execution_status =
            [NewExecutionStatus(Clock) EXCEPT !.stages =
                [i \in 1..Len(done) |-> [name |-> done[i], success |-> TRUE]]]
    /\ pipeline_status = ps
    /\ exit_status = NotExited
    /\ previous_run = None

\* pipeline_status.json as an earlier run has left it
EarlierStatus ==
    { None,
      [start_time |-> Clock - 1,
       stages |-> [i \in DOMAIN StageNames |->
                    [name |-> StageNames[i], success |-> TRUE]],
       success |-> TRUE, error |-> "None"],
      [start_time |-> Clock - 1,
       stages |-> <<[name |-> "fetch", success |-> FALSE]>>,
       success |-> FALSE,
       error |-> "Fetch stage failed and no cached data available"] }

\* run_pipeline from its start, with and without the raw file of today
InitPipeline ==
    \E fs \in {{}, {TodayRawFile}}, ps \in EarlierStatus :
        Running(EntryOf["fetch"], Clock, fs, <<>>, <<>>, NoSkills, <<>>,
                <<>>, <<>>, <<>>, <<>>, ps)

NextPipeline ==
    \/ CallFetch \/ RecordFetch
    \/ CallClean \/ RecordClean
    \/ CallSkills \/ RecordSkills
    \/ CallClusters \/ RecordClusters
    \/ CallAggregate \/ RecordAggregate
    \/ CallForecast \/ RecordForecast
    \/ CallAlerts \/ RecordAlerts
    \/ CallJmmi \/ RecordJmmi
    \/ CallExport \/ RecordExport
    \/ Finish

SpecPipeline == InitPipeline /\ [][NextPipeline]_vars

-----------------------------------------------------------------------------
(* compute_company_stats *)

MaxCompanyJobs == 3    \* jobs of the tables given to compute_company_stats

\* The company names in their sort order
CompanyOrder == <<"", "Acme", "Bolt", "Core">>

CompanyRank(name) == CHOOSE k \in DOMAIN CompanyOrder : CompanyOrder[k] = name

\* A job with a company and a salary range
CompanyJob(date, category, location, company, salary) ==
    [Job(date, category, location, SkillList(<<>>))
        EXCEPT !.company_name_clean = company,
               !.salary_min = salary,
               !.salary_max = IF salary = NoSalary THEN NoSalary
                              ELSE salary + 10]

\* Up to MaxCompanyJobs jobs of two companies, two clusters and two
\* locations or none, on consecutive days, every second one with a salary
CompanyJobInputs ==
    { [i \in DOMAIN q |->
        CompanyJob(i, q[i].category, q[i].location, q[i].company,
                   IF i % 2 = 0 THEN NoSalary ELSE 50 * i)] :
      q \in SeqsUpTo([company : {"Acme", "Bolt"},
                      location : {"NYC", "Remote", "NaN"},
                      category : {0, 1}], MaxCompanyJobs) \ {<<>>} }

\* The column col of the rows
Column(rows, col) == [i \in DOMAIN rows |-> rows[i][col]]

\* Series.mean(): the sum and the number of the values that are not NaN
RECURSIVE SalarySum(_)
SalarySum(values) ==
    IF values = <<>> THEN 0 ELSE values[1] + SalarySum(Tail(values))

SalaryMean(values) ==
    LET present == SelectSeq(values, LAMBDA v : v # NoSalary)
    IN  [sum |-> SalarySum(present), n |-> Len(present)]

\* x.mode(): the most frequent of the values that are not NaN
Modes(values) ==
    LET present == SelectSeq(values, LAMBDA v : v # "NaN")
        count(v) == Cardinality({ i \in DOMAIN present : present[i] = v })
    IN  { present[i] : i \in { k \in DOMAIN present :
            \A j \in DOMAIN present : count(present[k]) >= count(present[j]) } }

\* Mutant: of several most frequent values the first in row order is taken.
Mode_first(values) ==
    LET modes == Modes(values)
        first == CHOOSE i \in DOMAIN values :
                    /\ values[i] \in modes
                    /\ \A j \in 1..(i - 1) : values[j] \notin modes
    IN  IF modes = {} THEN "Unknown" ELSE values[first]

\* x.mode().iloc[0] if len(x.mode()) > 0 else 'Unknown': mode() returns the
\* most frequent values sorted, so the smallest of them is taken
Mode(values) ==
    LET modes == Modes(values)
    IN  IF modes = {} THEN "Unknown"
        ELSE CHOOSE m \in modes : \A o \in modes : RankOf(m) <= RankOf(o)

\* The row of one company: the aggregations of lines 214-221 under the
\* column names of lines 223-232.  job_title_clean is a string in every row
\* that clean_jobs writes, so its count is the number of rows.
CompanyRow(df, company) ==
    LET group == SelectSeq(df, LAMBDA row : row.company_name_clean = company)
        dates == { group[i].posted_date : i \in DOMAIN group }
    IN  [company_name |-> company,
         job_count |-> Len(group),
         avg_salary_min |-> SalaryMean(Column(group, "salary_min")),
         avg_salary_max |-> SalaryMean(Column(group, "salary_max")),
         primary_location |-> Mode(Column(group, "location_clean")),
         primary_category |-> Mode(Column(group, "category_name")),
         first_posted |-> CHOOSE d \in dates : \A e \in dates : d <= e,
         last_posted |-> CHOOSE d \in dates : \A e \in dates : d >= e]

\* df.groupby('company_name_clean'): one row per company, by company name
RECURSIVE GroupByCompany(_, _)
GroupByCompany(df, names) ==
    IF names = {} THEN <<>>
    ELSE LET first == CHOOSE c \in names :
                        \A o \in names : CompanyRank(c) <= CompanyRank(o)
         IN  <<CompanyRow(df, first)>> \o GroupByCompany(df, names \ {first})

\* Line 234, sort_values('job_count', ascending=False): equal counts stay in
\* the order of the groups
compute_company_stats(df) ==
    SortByJobCountDesc(
        GroupByCompany(df, { df[i].company_name_clean : i \in DOMAIN df }))

\* Line 71
CompanyStats ==
    /\ pc = "company_stats"
    /\ company_stats' = compute_company_stats(Prepared(jobs))
    /\ pc' = "save_aggregates"
    /\ UNCHANGED <<jmmiVars, skills, alertVars, aggregateVars, stage_result,
                   execution_status, pipeline_status, exit_status,
                   previous_run>>

\* compute_company_stats on every job table of CompanyJobInputs
InitCompanyStats ==
    \E js \in CompanyJobInputs : AggregateEntered("company_stats", js)

SpecCompanyStats == InitCompanyStats /\ [][CompanyStats]_vars

-----------------------------------------------------------------------------
(* Claims about the company statistics *)

CompanyStatsComputed == pc = "save_aggregates"

\* The jobs of a company among the jobs with a valid date
JobsOf(company) ==
    SelectSeq(Prepared(jobs), LAMBDA row : row.company_name_clean = company)

\* How often the value v occurs in the column col of the company's jobs
Frequency(company, col, v) ==
    Cardinality({ i \in DOMAIN JobsOf(company) : JobsOf(company)[i][col] = v })

\* The values of the column, NaN apart, that no other value exceeds in
\* frequency
MostFrequent(company, col) ==
    { v \in { JobsOf(company)[i][col] : i \in DOMAIN JobsOf(company) } \ {"NaN"} :
        \A i \in DOMAIN JobsOf(company) :
            JobsOf(company)[i][col] # "NaN" =>
                Frequency(company, col, v)
                    >= Frequency(company, col, JobsOf(company)[i][col]) }

\* The most frequent value that comes first in the company's jobs
FirstEncountered(company, col) ==
    LET g == JobsOf(company)
        i == CHOOSE k \in DOMAIN g :
                /\ g[k][col] \in MostFrequent(company, col)
                /\ \A j \in 1..(k - 1) : g[j][col] \notin MostFrequent(company, col)
    IN  g[i][col]

\* One row per company, by job count descending, each with the number of
\* the company's jobs
OneRowPerCompanySorted ==
    /\ \A i, j \in DOMAIN company_stats :
        /\ company_stats[i].company_name = company_stats[j].company_name => i = j
        /\ i < j => company_stats[i].job_count >= company_stats[j].job_count
    /\ { company_stats[i].company_name : i \in DOMAIN company_stats }
        = { Prepared(jobs)[i].company_name_clean : i \in DOMAIN Prepared(jobs) }
    /\ \A i \in DOMAIN company_stats :
        company_stats[i].job_count = Len(JobsOf(company_stats[i].company_name))

\* C23 as stated: compute_company_stats returns one row per company sorted
\* by job count descending, whose primary location and primary category are
\* the most frequent value among the company's jobs, the one encountered
\* first in input order when several tie.
C23_ModeFirstEncountered ==
    CompanyStatsComputed =>
        /\ OneRowPerCompanySorted
        /\ \A i \in DOMAIN company_stats :
            LET c == company_stats[i].company_name
            IN  /\ MostFrequent(c, "location_clean") # {} =>
                    company_stats[i].primary_location
                        = FirstEncountered(c, "location_clean")
                /\ company_stats[i].primary_category
                        = FirstEncountered(c, "category_name")

\* C23, amended: compute_company_stats returns one row per company sorted by
\* job count descending, whose primary location and primary category are
\* the most frequent value among the company's jobs, the smallest in sort
\* order when several tie ('Unknown' when the company has no value).
C23_ModeSmallest ==
    CompanyStatsComputed =>
        /\ OneRowPerCompanySorted
        /\ \A i \in DOMAIN company_stats :
            LET c == company_stats[i].company_name
                locations == MostFrequent(c, "location_clean")
                categories == MostFrequent(c, "category_name")
            IN  /\ IF locations = {}
                   THEN company_stats[i].primary_location = "Unknown"
                   ELSE /\ company_stats[i].primary_location \in locations
                        /\ \A v \in locations :
                            RankOf(company_stats[i].primary_location) <= RankOf(v)
                /\ company_stats[i].primary_category \in categories
                /\ \A v \in categories :
                    RankOf(company_stats[i].primary_category) <= RankOf(v)

\* Of three jobs, a company has two: the first in "Remote", the second in
\* "NYC".
C23_Witness ==
    /\ CompanyStatsComputed
    /\ \E i \in DOMAIN company_stats :
        LET g == JobsOf(company_stats[i].company_name)
        IN  /\ Len(g) = 2
            /\ g[1].location_clean = "Remote" /\ g[2].location_clean = "NYC"
            /\ company_stats[i].primary_location = "NYC"
    /\ Len(jobs) = 3

-----------------------------------------------------------------------------
(***************************************************************************)
(* Stages 6 to 8 of the pipeline on the curated tables: forecast_jobs      *)
(* (src/etl/forecast_jobs.py), generate_alerts                             *)
(* (src/etl/generate_alerts.py) and compute_jmmi, each reading what the    *)
(* stages before it have written.  What Prophet predicts for a category    *)
(* is an input: a failure, or one value for the 30 days after the last     *)
(* observation.                                                            *)
(***************************************************************************)

FORECAST_DAYS == 30

\* The files that aggregate_counts writes and compute_jmmi or
\* generate_alerts read
AggregateFiles ==
    {"aggregates_category.parquet", "aggregates_overall.parquet",
     "skill_frequency.json", "company_stats.parquet"}

(* forecast_jobs *)

\* What Prophet does for one category: it fails, or predicts yhat
ProphetOutcomes ==
    {[ok |-> FALSE]} \cup { [ok |-> TRUE, yhat |-> v] : v \in {0 - 2, 4} }

\* generate_prophet_forecast: the rows after the last date, clipped at 0; no
\* rows stand for None
generate_prophet_forecast(category_data, category, outcome) ==
    IF ~outcome.ok THEN <<>>
    ELSE
        LET last_date == category_data[Len(category_data)].posted_date
        IN  [i \in 1..FORECAST_DAYS |->
                [date |-> last_date + i, category_name |-> category,
                 forecast |-> Max(0, outcome.yhat)]]

\* Mutant: a category is forecast whatever its size and its total.
RECURSIVE ForecastsOf_unguarded(_, _, _)
ForecastsOf_unguarded(df, categories, prophet) ==
    IF categories = <<>> THEN <<>>
    ELSE
        LET category == categories[1]
            category_data == CategoryData(df, category)
            rest == ForecastsOf_unguarded(df, Tail(categories), prophet)
            forecast_result ==
                generate_prophet_forecast(category_data, category,
                                          prophet[category])
        IN  IF forecast_result # <<>> THEN <<forecast_result>> \o rest
            ELSE rest

\* Lines 47-72: the loop over the categories, giving the list forecasts
RECURSIVE ForecastsOf(_, _, _)
ForecastsOf(df, categories, prophet) ==
    IF categories = <<>> THEN <<>>
    ELSE
        LET category == categories[1]
            category_data == CategoryData(df, category)
            rest == ForecastsOf(df, Tail(categories), prophet)
        IN  IF Len(category_data) < 10 THEN rest
            ELSE IF SumJobCount(category_data) = 0 THEN rest
            ELSE
                LET forecast_result ==
                        generate_prophet_forecast(category_data, category,
                                                  prophet[category])
                IN  IF forecast_result # <<>> THEN <<forecast_result>> \o rest
                    ELSE rest

\* pd.concat(forecasts, ignore_index=True)
RECURSIVE Concat(_)
Concat(frames) ==
    IF frames = <<>> THEN <<>> ELSE frames[1] \o Concat(Tail(frames))

\* forecast_jobs: what it returns, and forecasts.parquet if it writes it
forecast_jobs(fs, df, prophet) ==
    IF "aggregates_category.parquet" \notin fs
    THEN [result |-> [success |-> FALSE,
                      error |-> "Aggregated data file not found",
                      forecast_days |-> 0],
          written |-> FALSE, table |-> <<>>]
    ELSE
        LET frames == ForecastsOf(df, Unique(df, {}), prophet)
        IN  IF frames = <<>>
            THEN [result |-> [success |-> TRUE, forecast_days |-> 0,
                              categories_forecasted |-> 0,
                              warning |-> "No forecasts generated due to insufficient data"],
                  written |-> TRUE, table |-> <<>>]
            ELSE [result |-> [success |-> TRUE,
                              forecast_days |-> FORECAST_DAYS,
                              categories_forecasted |-> Len(frames)],
                  written |-> TRUE, table |-> Concat(frames)]

\* Stage 6: forecast_jobs runs and returns.
ForecastJobs ==
    /\ pc = "forecast_jobs"
    /\ \E prophet \in [{ CategoryNames[i] : i \in DOMAIN CategoryNames }
                         -> ProphetOutcomes] :
        LET out == forecast_jobs(files, category_counts, prophet)
        IN  /\ stage_result' = out.result
            /\ forecasts' = IF out.written THEN out.table ELSE forecasts
            /\ files' = IF out.written
                        THEN files \cup {"forecasts.parquet"} ELSE files
    /\ pc' = "forecast_returned"
    /\ ClockAdvances
    /\ UNCHANGED <<trends, skills, alerts, companies, posting_velocity,
                   skill_velocity, forecast_accuracy, market_activity,
                   company_diversity, jmmi_score, result, alertVars,
                   aggregateVars, company_stats, execution_status,
                   pipeline_status, exit_status, previous_run>>

(* generate_alerts *)

\* Lines 35-42 of generate_alerts
CheckAggregates ==
    /\ pc = "generate_alerts"
    /\ IF "aggregates_category.parquet" \notin files
       THEN /\ stage_result' = [success |-> FALSE,
                                error |-> "Aggregated data file not found",
                                count |-> 0]
            /\ pc' = "alerts_returned"
       ELSE /\ stage_result' = stage_result
            /\ pc' = "detect_spikes"
    /\ UNCHANGED <<jmmiVars, skills, alertVars, aggregateVars, company_stats,
                   execution_status, pipeline_status, exit_status,
                   previous_run>>

\* alert.get('category', 'unknown')
GetCategory(alert) ==
    IF "category" \in DOMAIN alert THEN alert.category ELSE "unknown"

\* Mutant: an alert is stamped with the date of the observation it is about.
AddMetadata_observed(list, times) ==
    [i \in DOMAIN list |->
        list[i] @@
        [generated_at |-> IF "date" \in DOMAIN list[i]
                          THEN list[i].date ELSE times[i],
         id |-> list[i].type \o "_" \o GetCategory(list[i]) \o "_"
                    \o ToString(times[i])]]

\* Lines 57-59: alert i gets the time times[i] and its id
AddMetadata(list, times) ==
    [i \in DOMAIN list |->
        list[i] @@
        [generated_at |-> times[i],
         id |-> list[i].type \o "_" \o GetCategory(list[i]) \o "_"
                    \o ToString(times[i])]]

\* Mutant: the alerts are added to those that the file holds.
WriteJson_appending(held, list) == held \o list

\* Lines 66-67, open(output_file, 'w') and json.dump: the file holds the
\* list and nothing of what it held
WriteJson(held, list) == list

\* Lines 46-78: the alerts are gathered, stamped and written, and
\* generate_alerts returns.  The clock may advance once while the alerts are
\* stamped.
SaveAlerts ==
    /\ pc = "add_metadata"
    /\ LET list == spike_alerts \o drop_alerts \o skill_alerts
       IN  /\ \E t \in now..(Clock + MaxElapsed), k \in 0..Len(list) :
                /\ now' = t
                /\ alerts' = WriteJson(alerts,
                                AddMetadata(list, [i \in DOMAIN list |->
                                                IF i <= k THEN now ELSE t]))
           /\ stage_result' = [success |-> TRUE, count |-> Len(list),
                               spikes |-> Len(spike_alerts),
                               drops |-> Len(drop_alerts),
                               skill_trends |-> Len(skill_alerts)]
    /\ files' = files \cup {"alerts.json"}
    /\ pc' = "alerts_returned"
    /\ UNCHANGED <<trends, skills, forecasts, companies, posting_velocity,
                   skill_velocity, forecast_accuracy, market_activity,
                   company_diversity, jmmi_score, result, alertVars,
                   aggregateVars, company_stats, execution_status,
                   pipeline_status, exit_status, previous_run>>

(* compute_jmmi in the pipeline *)

\* Lines 54-61 of compute_jmmi: the tables loaded are those on disk.
LoadWritten ==
    /\ pc = "load"
    /\ ClockAdvances
    /\ pc' = "posting_velocity"
    /\ UNCHANGED <<files, trends, skills, forecasts, alerts, companies,
                   posting_velocity, skill_velocity, forecast_accuracy,
                   market_activity, company_diversity, jmmi_score, result,
                   alertVars, aggregateVars, pipelineVars>>

(* Inputs: the curated tables after aggregation *)

\* aggregates_overall.parquet for a category table: the count of each date
OverallOf(cc) ==
    LET dates == Sorted({ cc[i].posted_date : i \in DOMAIN cc })
    IN  [k \in DOMAIN dates |->
            [posted_date |-> dates[k],
             job_count |-> SumJobCount(SelectSeq(cc,
                            LAMBDA row : row.posted_date = dates[k]))]]

\* The table with its dates shifted so that the last one is the given day
EndingOn(cc, last) ==
    IF cc = <<>> THEN cc
    ELSE
        LET latest == CHOOSE d \in { cc[i].posted_date : i \in DOMAIN cc } :
                        \A i \in DOMAIN cc : cc[i].posted_date <= d
        IN  [i \in DOMAIN cc |->
                [cc[i] EXCEPT !.posted_date = @ - latest + last]]

\* skill_frequency.json with its dates shifted likewise: skills are counted
\* on dates that have jobs
SkillsEndingOn(sk, last) ==
    LET n == Len(sk.by_date)
    IN  [by_date |-> [d \in (last - n + 1)..last |-> sk.by_date[d - last + n]]]

\* "ML" with 9, 10 or 20 days and "Data" with no, 8 or 14 days, the latest
\* of them the day of the run
CuratedCategoryInputs ==
    { EndingOn(CategoryTable(n1, p1, n2, "scenario8", 1), Clock) :
        n1 \in {9, 10, 20}, p1 \in {"spike18", "zero", "early", "crash"},
        n2 \in {0, 8, 14} }

\* alerts.json and forecasts.parquet as an earlier run has left them
EarlierAlerts == {<<>>, AlertsOf(2, "spike", Clock - 1)}

EarlierForecasts(al) ==
    IF al = <<>> THEN <<>>
    ELSE <<[date |-> Clock, category_name |-> "ML", forecast |-> 10]>>

\* Stage 6 is entered after an aggregation of the given tables.
Curated(p, fs, cc, sk, fc, al, done) ==
    Running(p, Clock, fs, cc, OverallOf(cc), sk, fc, al, CompanyTable(10),
            <<>>, done, None)

InitStages ==
    \/ \E cc \in CuratedCategoryInputs, nt \in {0, 2},
          al \in EarlierAlerts :
        LET sk == SkillsEndingOn(
                    SkillTable(Min(14, Len(OverallOf(cc))), nt, 1, "new"),
                    Clock)
        IN
            Curated("forecast_jobs",
                    AggregateFiles
                        \cup (IF al = <<>> THEN {}
                              ELSE {"alerts.json", "forecasts.parquet"}),
                    cc, sk, EarlierForecasts(al), al,
                    <<"fetch", "clean", "skills", "clusters", "aggregate">>)
    \* no job has a valid date: the aggregation has written empty tables
    \/ Curated("forecast_jobs", AggregateFiles, <<>>, NoSkills, <<>>, <<>>,
               <<"fetch", "clean", "skills", "clusters", "aggregate">>)

NextStages ==
    \/ ForecastJobs \/ RecordForecast
    \/ CheckAggregates \/ DetectSpikes \/ DetectDrops \/ DetectSkillTrends
    \/ SaveAlerts \/ RecordAlerts
    \/ CheckFiles \/ LoadWritten \/ PostingVelocity \/ SkillVelocity
    \/ ForecastAccuracy \/ MarketActivity \/ CompanyDiversity \/ Compose
    \/ RecordJmmi

SpecStages == InitStages /\ [][NextStages]_vars

\* Stage 7 is entered with 15 uneventful days of "ML" and every skill table
\* of SkillInputs; an earlier run may have left its alerts.
InitSkillStages ==
    \E s \in SkillInputs, al \in EarlierAlerts :
        Curated("generate_alerts",
                AggregateFiles \cup {"forecasts.parquet"}
                    \cup (IF al = <<>> THEN {} ELSE {"alerts.json"}),
                EndingOn(CategoryTable(MaxDates, "flat", 0, "scenario8", 1),
                         Clock),
                SkillsEndingOn(s, Clock), <<>>, al,
                <<"fetch", "clean", "skills", "clusters", "aggregate",
                  "forecast">>)

NextSkillStages ==
    \/ CheckAggregates \/ DetectSpikes \/ DetectDrops \/ DetectSkillTrends
    \/ SaveAlerts \/ RecordAlerts
    \/ CheckFiles \/ LoadWritten \/ PostingVelocity \/ SkillVelocity

SpecSkillStages == InitSkillStages /\ [][NextSkillStages]_vars

-----------------------------------------------------------------------------
(***************************************************************************)
(* Stages 5 to 8 run again on the same jobs_clean.parquet: aggregate_counts *)
(* from its first line to its return, then the stages above, and a second  *)
(* invocation of the pipeline whose stages 1 to 4 leave the same jobs.     *)
(***************************************************************************)

MaxRuns == 2           \* invocations of the pipeline

\* Lines 27-34 of aggregate_counts
LoadJobs ==
    /\ pc = "aggregate_counts"
    /\ IF "jobs_clean.parquet" \notin files
       THEN /\ stage_result' = [success |-> FALSE,
                                error |-> "Cleaned jobs file not found"]
            /\ pc' = "aggregate_returned"
       ELSE /\ stage_result' = stage_result
            /\ pc' = "aggregate_daily"
    /\ UNCHANGED <<jmmiVars, skills, alertVars, aggregateVars, company_stats,
                   execution_status, pipeline_status, exit_status,
                   previous_run>>

\* Lines 73-100 of aggregate_counts: the tables are written, each file
\* replacing what it held, and aggregate_counts returns
SaveAggregates ==
    /\ pc = "save_aggregates"
    /\ category_counts' = daily_category_counts
    /\ trends' = daily_overall_counts
    /\ skills' = skill_frequency
    /\ companies' = company_stats
    /\ files' = files \cup AggregateFiles \cup {"aggregates_location.parquet"}
    /\ stage_result' =
        [success |-> TRUE,
         total_days |-> Len(daily_overall_counts),
         categories |-> Cardinality({ Prepared(jobs)[i].category_name :
                                        i \in DOMAIN Prepared(jobs) }),
         unique_skills |-> Cardinality(DOMAIN skill_frequency)]
    /\ pc' = "aggregate_returned"
    /\ UNCHANGED <<now, forecasts, alerts, posting_velocity, skill_velocity,
                   forecast_accuracy, market_activity, company_diversity,
                   jmmi_score, result, spike_alerts, drop_alerts,
                   skill_alerts, aggregateVars, company_stats,
                   execution_status, pipeline_status, exit_status,
                   previous_run>>

\* The number of invocations that have reached stage 9
RunsDone == IF previous_run = None THEN 0 ELSE previous_run.runs

\* What the stages 5 to 8 of the current invocation have produced
Outputs ==
    [runs |-> RunsDone + 1,
     daily_category_counts |-> daily_category_counts,
     daily_location_counts |-> daily_location_counts,
     daily_overall_counts |-> daily_overall_counts,
     skill_frequency |-> skill_frequency,
     company_stats |-> company_stats,
     forecasts |-> forecasts,
     alerts |-> alerts,
     posting_velocity |-> posting_velocity,
     skill_velocity |-> skill_velocity,
     forecast_accuracy |-> forecast_accuracy,
     market_activity |-> market_activity,
     company_diversity |-> company_diversity,
     result |-> result]

\* The pipeline is invoked again (lines 253-254) when the invocation before
\* has reached stage 9; its stages 1 to 4 succeed and leave
\* jobs_clean.parquet as it was.  The files of the earlier invocation stay
\* on disk.
Rerun ==
    /\ pc = EntryOf["export"]
    /\ RunsDone + 1 < MaxRuns
    /\ previous_run' = Outputs
    /\ pc' = EntryOf["aggregate"]
    /\ posting_velocity' = None
    /\ skill_velocity' = None
    /\ forecast_accuracy' = None
    /\ market_activity' = None
    /\ company_diversity' = None
    /\ jmmi_score' = None
    /\ result' = None
    /\ spike_alerts' = <<>>
    /\ drop_alerts' = <<>>
    /\ skill_alerts' = <<>>
    /\ daily_category_counts' = <<>>
    /\ daily_location_counts' = <<>>
    /\ daily_overall_counts' = <<>>
    /\ skill_frequency' = None
    /\ company_stats' = <<>>
    /\ stage_result' = None
    /\ execution_status' =
            [NewExecutionStatus(Clock) EXCEPT !.stages =
                [i \in 1..4 |-> [name |-> StageNames[i], success |-> TRUE]]]
    /\ UNCHANGED <<now, files, trends, skills, forecasts, alerts, companies,
                   category_counts, jobs, pipeline_status, exit_status>>

\* The number of jobs of "ML" posted on the i-th day
RerunPostings(i) == IF i = 8 THEN 10 ELSE IF i = 12 THEN 1 ELSE 3

\* jobs_clean.parquet: n days up to the day of the run; "python" is named
\* by one job a day, and by a second one in the last 7 days
RECURSIVE RerunJobs(_, _)
RerunJobs(n, i) ==
    IF i > n THEN <<>>
    ELSE [j \in 1..RerunPostings(i) |->
            [CompanyJob(Clock - n + i, 1,
                        IF j % 2 = 0 THEN "NYC" ELSE "Remote",
                        CompanyOrder[2 + ((i + j) % 3)],
                        IF j = 1 THEN 40 + i ELSE NoSalary)
                EXCEPT !.skills =
                    IF j = 1 THEN SkillList(<<"python">>)
                    ELSE IF j = 2
                    THEN (IF i > n - 7 THEN SkillList(<<"python", "sql">>)
                          ELSE SkillList(<<"sql">>))
                    ELSE SkillList(<<>>)]]
         \o RerunJobs(n, i + 1)

\* Stage 5 is entered with only the cleaned jobs on disk: 13, 14 or 15 days
InitRerun ==
    \E n \in {13, 14, 15} :
        Running(EntryOf["aggregate"], Clock, {"jobs_clean.parquet"}, <<>>,
                <<>>, NoSkills, <<>>, <<>>, <<>>, RerunJobs(n, 1),
                <<"fetch", "clean", "skills", "clusters">>, None)

NextRerun ==
    \/ LoadJobs \/ AggregateDaily \/ SkillFrequency \/ CompanyStats
    \/ SaveAggregates \/ RecordAggregate
    \/ ForecastJobs \/ RecordForecast
    \/ CheckAggregates \/ DetectSpikes \/ DetectDrops \/ DetectSkillTrends
    \/ SaveAlerts \/ RecordAlerts
    \/ CheckFiles \/ LoadWritten \/ PostingVelocity \/ SkillVelocity
    \/ ForecastAccuracy \/ MarketActivity \/ CompanyDiversity \/ Compose
    \/ RecordJmmi
    \/ Rerun

SpecRerun == InitRerun /\ [][NextRerun]_vars

-----------------------------------------------------------------------------
(* Claims about run_pipeline *)

\* The stages recorded in execution_status, in the order of their recording
Stages ==
    IF "stages" \in DOMAIN execution_status
    THEN execution_status.stages ELSE <<>>

Succeeded(k) ==
    \E i \in DOMAIN Stages : Stages[i].name = k /\ Stages[i].success

ReportedFailure(k) ==
    \E i \in DOMAIN Stages : Stages[i].name = k /\ ~Stages[i].success

Raised(k) ==
    /\ "error" \in DOMAIN execution_status
    /\ execution_status.error = k \o " raised"

\* The function of stage k is about to run, has returned, or has run
\* earlier in this run
Started(k) ==
    \/ pc \in {EntryOf[k], ReturnOf[k]}
    \/ \E i \in DOMAIN Stages : Stages[i].name = k
    \/ Raised(k)

\* C22: in every pipeline run aggregation completes successfully before
\* forecasting, alert detection and index composition start, forecasting and
\* alert detection complete successfully before index composition starts,
\* and index composition never runs in a run in which aggregation,
\* forecasting or alert detection failed.
C22_DataFlowOrder ==
    /\ \A k \in {"forecast", "alerts", "jmmi"} :
        Started(k) => Succeeded("aggregate")
    /\ Started("jmmi") => Succeeded("forecast") /\ Succeeded("alerts")
    /\ \A k \in {"aggregate", "forecast", "alerts"} :
        ReportedFailure(k) \/ Raised(k) => ~Started("jmmi")

\* Index composition has run, after the three stages before it.
C22_Witness ==
    /\ pc = ReturnOf["jmmi"]
    /\ Succeeded("aggregate")
    /\ Succeeded("forecast")
    /\ Succeeded("alerts")
    /\ exit_status = NotExited

\* The run has failed: a stage has reported failure or raised
RunFailed ==
    \E i \in DOMAIN StageNames :
        ReportedFailure(StageNames[i]) \/ Raised(StageNames[i])

\* C27: run_pipeline executes its nine stages strictly in sequence and
\* starts a stage only after every earlier stage reported success; when a
\* stage reports failure or raises, no later stage is executed,
\* pipeline_status.json records success = false with the error and the
\* process exits with status 1; success = true is recorded only after all
\* nine stages succeeded.  The single exception is a fetch that reports
\* failure, which is replaced by the raw file of today when that exists.
C27_StagesInSequence ==
    /\ Len(Stages) <= Len(StageNames)
    /\ \A i \in DOMAIN Stages : Stages[i].name = StageNames[i]
    /\ \A i \in DOMAIN StageNames :
        pc \in {EntryOf[StageNames[i]], ReturnOf[StageNames[i]]} =>
            /\ Len(Stages) = i - 1
            /\ \A j \in 1..(i - 1) : Stages[j].success
            /\ exit_status = NotExited
    /\ \A i \in DOMAIN Stages :
        ~Stages[i].success => i = Len(Stages)
    /\ RunFailed =>
        /\ pc = "exited"
        /\ exit_status = 1
        /\ pipeline_status = execution_status
        /\ ~pipeline_status.success
        /\ pipeline_status.error # "None"
    /\ exit_status = 1 => RunFailed
    /\ \A i \in DOMAIN StageNames :
        Raised(StageNames[i]) => Len(Stages) = i - 1
    /\ (pipeline_status = execution_status /\ pipeline_status.success) =>
        /\ Len(Stages) = Len(StageNames)
        /\ \A i \in DOMAIN Stages : Stages[i].success
        /\ exit_status = 0
    /\ exit_status = 0 =>
        pipeline_status = execution_status /\ pipeline_status.success
    /\ \A i \in DOMAIN Stages :
        "from_cache" \in DOMAIN Stages[i] =>
            i = 1 /\ Stages[i].success /\ TodayRawFile \in files
    /\ ReportedFailure("fetch") => TodayRawFile \notin files

\* A run that went on from the raw file of today after a failed fetch and
\* ended when forecasting reported failure.
C27_Witness ==
    /\ pc = "exited"
    /\ exit_status = 1
    /\ Len(Stages) = 6
    /\ "from_cache" \in DOMAIN Stages[1]
    /\ ReportedFailure("forecast")
    /\ pipeline_status.error # "None"

-----------------------------------------------------------------------------
(* Claims about the alerts that generate_alerts writes *)

\* generate_alerts has returned success: alerts holds what it wrote
AlertsWritten == pc = ReturnOf["alerts"] /\ stage_result.success

\* What an alert is about: the category of a spike or a drop, the skill of a
\* skill trend
SubjectOf(a) == IF a.type = "skill_trend" THEN a.skill ELSE a.category

\* C24: every alert that generate_alerts writes, of whichever type, carries a
\* generation timestamp and an id made of its type, of its category (spike,
\* drop) or its skill (skill trend), and of a timestamp of the run.
C24_IdNamesSubject ==
    AlertsWritten =>
        \A i \in DOMAIN alerts :
            /\ "generated_at" \in DOMAIN alerts[i]
            /\ "id" \in DOMAIN alerts[i]
            /\ \E t \in Clock..now :
                alerts[i].id = alerts[i].type \o "_" \o SubjectOf(alerts[i])
                                   \o "_" \o ToString(t)

\* The time of the current run: from its start to now
DuringRun(t) == execution_status.start_time <= t /\ t <= now

\* The alerts of the list without their generated_at
Unstamped(al) == [i \in DOMAIN al |-> [type |-> al[i].type]]

\* C30: every alert that generate_alerts writes carries a generated_at
\* within the run that wrote it, whatever the date of the observation it is
\* about; compute_market_activity, run after generate_alerts in the same
\* run, counts every spike and every drop that was detected, and counts no
\* alert that has no generated_at.
C30_RunAlertsAllRecent ==
    /\ AlertsWritten =>
        /\ Len(alerts) = Len(spike_alerts) + Len(drop_alerts) + Len(skill_alerts)
        /\ \A i \in DOMAIN alerts : DuringRun(alerts[i].generated_at)
    /\ (pc = "company_diversity" /\ Succeeded("alerts")) =>
        /\ market_activity.spikes = Len(spike_alerts)
        /\ market_activity.drops = Len(drop_alerts)
        /\ market_activity.total_alerts = Len(alerts)
        /\ compute_market_activity(alerts \o Unstamped(alerts), now)
               = market_activity

\* A spike and a drop of earlier dates than the run were detected, written
\* and counted.
C30_Witness ==
    /\ pc = "company_diversity" /\ Succeeded("alerts")
    /\ market_activity.spikes > 0 /\ market_activity.drops > 0
    /\ \E i \in DOMAIN alerts :
        /\ alerts[i].type \in {"spike", "drop"}
        /\ alerts[i].date < now - 7

-----------------------------------------------------------------------------
(* Claims about forecast_jobs in the pipeline *)

\* forecast_jobs has returned
ForecastReturned == pc = ReturnOf["forecast"]

\* The category has at least 10 daily observations with a total above 0
Qualifies(category) ==
    LET category_data == CategoryData(category_counts, category)
    IN  Len(category_data) >= 10 /\ SumJobCount(category_data) # 0

NoCategoryQualifies ==
    \A i \in DOMAIN CategoryNames : ~Qualifies(CategoryNames[i])

\* C26: forecast_jobs forecasts no category with fewer than 10 daily
\* observations or a total count of 0; when no category qualifies it returns
\* success and writes an empty forecast table, the run goes on past stage 6,
\* and forecast_accuracy is the neutral 50.0 with status insufficient_data.
C26_MinimumData ==
    /\ (ForecastReturned /\ stage_result.success) =>
        /\ "forecasts.parquet" \in files
        /\ \A i \in DOMAIN forecasts : Qualifies(forecasts[i].category_name)
    /\ NoCategoryQualifies =>
        /\ ForecastReturned =>
            /\ stage_result.success
            /\ stage_result.forecast_days = 0
            /\ forecasts = <<>>
        /\ ~ReportedFailure("forecast")
        /\ ~Raised("forecast")
        /\ pc = "market_activity" =>
            /\ Succeeded("forecast")
            /\ forecast_accuracy.score = 500
            /\ forecast_accuracy.status = "insufficient_data"

\* Nine days of "ML" and eight of "Data", more than 7 days overall: the run
\* has passed stage 6 and scored the forecast accuracy.
C26_Witness ==
    /\ pc = "market_activity"
    /\ NoCategoryQualifies
    /\ Len(CategoryData(category_counts, "ML")) = 9
    /\ Len(CategoryData(category_counts, "Data")) = 8
    /\ Len(trends) >= 7
    /\ "forecasts.parquet" \in files

-----------------------------------------------------------------------------
(* Claims about the two readers of skill_frequency.json *)

\* compute_skill_velocity has run after generate_alerts in the same run, on
\* a table of at least 14 dates
SkillsScored ==
    /\ pc = "forecast_accuracy"
    /\ Succeeded("alerts")
    /\ Cardinality(DOMAIN skills.by_date) >= 14

\* The skills of a list of alerts or of trending entries
SkillsOf(list) == { list[i].skill : i \in DOMAIN list }

\* The growth of an alert, rounded as growth_pct is
GrowthPct(alert) ==
    RoundHalfEven1(alert.growth_rate.num, alert.growth_rate.den)

\* C29: on one skill-frequency table, when detect_skill_trends flags at most
\* 10 skills, compute_skill_velocity counts exactly these as trending; when
\* it flags more, trending_skills_count is 10, the score is 100.0 and the 10
\* skills kept are flagged skills of which none has a growth_pct below that
\* of a flagged skill left out; trending_skills never has more than 5
\* entries.
C29_TrendingAgree ==
    /\ skill_velocity # None =>
        Len(skill_velocity.trending_skills) <= 5
    /\ SkillsScored =>
        LET trending == TrendingList(skills)
            flagged == SkillsOf(skill_alerts)
        IN  /\ skill_velocity.trending_skills_count = Len(trending)
            /\ skill_velocity.trending_skills = Head_(trending, 5)
            /\ Cardinality(SkillsOf(trending)) = Len(trending)
            /\ Cardinality(flagged) = Len(skill_alerts)
            /\ Len(skill_alerts) <= 10 => SkillsOf(trending) = flagged
            /\ Len(skill_alerts) > 10 =>
                /\ skill_velocity.trending_skills_count = 10
                /\ skill_velocity.score = 1000
                /\ SkillsOf(trending) \subseteq flagged
                /\ \A i \in DOMAIN trending, k \in DOMAIN skill_alerts :
                    skill_alerts[k].skill \notin SkillsOf(trending)
                        => trending[i].growth_pct >= GrowthPct(skill_alerts[k])

\* Eleven skills are flagged, and one of more growth than a kept one was
\* found last.
C29_Witness ==
    /\ SkillsScored
    /\ Len(skill_alerts) = 11
    /\ Len(skill_velocity.trending_skills) = 5
    /\ \E k \in DOMAIN skill_alerts, i \in DOMAIN TrendingList(skills) :
        /\ k > 10
        /\ GrowthPct(skill_alerts[k]) > TrendingList(skills)[i].growth_pct

-----------------------------------------------------------------------------
(* Claims about running the stages again *)

\* An earlier invocation has run on the same jobs
Rerunning == previous_run # None

\* The alerts without their generation timestamp and their id
StripStamps(al) ==
    [i \in DOMAIN al |->
        [f \in DOMAIN al[i] \ {"generated_at", "id"} |-> al[i][f]]]

\* C21: when aggregation, alert detection and index composition run again
\* on the same jobs (and the same forecast table), the daily count tables,
\* the skill frequency table, the company statistics, the five component
\* results and overall_score are those of the run before, and so are the
\* alerts apart from generated_at and id; alerts.json holds the alerts
\* detected in the latest run and no other.
C21_RerunIdempotent ==
    /\ AlertsWritten =>
        StripStamps(alerts) = spike_alerts \o drop_alerts \o skill_alerts
    /\ Rerunning =>
        /\ (pc = ReturnOf["aggregate"] /\ stage_result.success) =>
            /\ daily_category_counts = previous_run.daily_category_counts
            /\ daily_location_counts = previous_run.daily_location_counts
            /\ daily_overall_counts = previous_run.daily_overall_counts
            /\ skill_frequency = previous_run.skill_frequency
            /\ company_stats = previous_run.company_stats
            /\ category_counts = daily_category_counts
            /\ trends = daily_overall_counts
            /\ skills = skill_frequency
            /\ companies = company_stats
        /\ AlertsWritten =>
            StripStamps(alerts) = StripStamps(previous_run.alerts)
        /\ (pc = EntryOf["export"] /\ forecasts = previous_run.forecasts) =>
            /\ posting_velocity = previous_run.posting_velocity
            /\ skill_velocity = previous_run.skill_velocity
            /\ forecast_accuracy = previous_run.forecast_accuracy
            /\ market_activity = previous_run.market_activity
            /\ company_diversity = previous_run.company_diversity
            /\ result.jmmi.overall_score
                = previous_run.result.jmmi.overall_score

\* The second run has reached stage 9 with a spike, a drop and a skill trend
\* stamped later than in the first run, and with the same forecasts.
C21_Witness ==
    /\ Rerunning
    /\ pc = EntryOf["export"]
    /\ forecasts = previous_run.forecasts
    /\ forecasts # <<>>
    /\ \A type \in {"spike", "drop", "skill_trend"} :
        \E i \in DOMAIN alerts : alerts[i].type = type
    /\ \E i \in DOMAIN alerts :
        alerts[i].generated_at > previous_run.alerts[i].generated_at

====
